---- MODULE Spec2Model ----
(***************************************************************************)
(* Tier-2 batch analysis of RehaanJohn/Stroke: GeminiAnalyzer              *)
(* (src/agent/gemini_analyzer.py): batch sizing, the attempt loop with     *)
(* model fallback, backoff and splitting, response parsing and the local   *)
(* rule-based analyzer.                                                    *)
(***************************************************************************)
EXTENDS Integers, Sequences, FiniteSets, TLC

(***************************************************************************)
(* Program constants (class attributes of GeminiAnalyzer).                 *)
(***************************************************************************)
MAX_TOKENS_PER_BATCH == 30000

MAX_BATCH_SIZE == 20

RETRY_DELAYS == <<3, 6, 12>>

MODELS == <<"gemini-2.0-flash", "gemini-1.5-flash", "gemini-1.5-flash-8b", "gemini-1.5-pro">>

\* flagged_tokens[:5] and the division by 5 in _should_split_batch
SAMPLE_SIZE == 5

\* len(text) // 4 in _estimate_token_count
CHARS_PER_TOKEN == 4

\* time.sleep(2) between chunks in _analyze_with_splitting
CHUNK_DELAY == 2

\* len("\n" + "=" * 80), the prefix of the formatted batch text
HEADER_CHARS == 81

\* self.min_request_interval of __init__, in seconds
MIN_REQUEST_INTERVAL_S == 1

(***************************************************************************)
(* Bounds of the model.                                                    *)
(***************************************************************************)
\* flagged tokens handed to one analyzer during its life under Spec, in any
\* number of analyze_batch calls
MaxItems == 3

\* analyze_batch calls on one analyzer under SustainedSpec
MaxSustainedCalls == 1

\* remote calls that may fail during the life of one analyzer under Spec; the
\* remote service of SustainedSpec fails without limit
MaxFaults == 4

\* longest batch whose split decision and split plan are computed under SizerSpec
MaxSizerLen == 64

\* flagged tokens handed to one analyzer during its life under LimiterSpec
MaxTimedItems == 2

\* resolution of the clock under LimiterSpec: ticks in one second
TicksPerSecond == 2

\* longest list of plans analyze_batch returns under PipelineSpec
MaxPlans == 3
\* largest confidence of a plan handed to the executors under GateSpec
MaxPlanConfidence == 110
\* accepted /agent/start requests under ServerSpec
MaxLoops == 3
\* calls of run_cycle made by the server under ServerSpec
MaxServerCycles == 3


\* signals one call of ingest_signals adds under CycleSpec
MaxIngest == 2

\* signals an engine ingests during its life under CycleSpec
MaxSignals == 4

\* largest batch_size of an engine under CycleSpec
MaxTier1Batch == 2

\* calls of run_cycle on one engine under CycleSpec
MaxCycles == 2

(***************************************************************************)
(* Arithmetic helpers.                                                     *)
(***************************************************************************)
Min(a, b) == IF a < b THEN a ELSE b

\* math.ceil(a / b) for a >= 0, b > 0
CeilDiv(a, b) == (a + b - 1) \div b

RECURSIVE SumChars(_)
SumChars(s) == IF s = <<>> THEN 0 ELSE Head(s).chars + SumChars(Tail(s))

\* flagged_tokens[:k]
Prefix(s, k) == SubSeq(s, 1, Min(k, Len(s)))

(***************************************************************************)
(* Signals and flagged tokens.  A signal carries the feature fields the    *)
(* rule-based analyzer reads; a flagged token carries its signal, its      *)
(* urgency score and the length of its formatted text (field chars).  The  *)
(* field id is the position of the token in the list given to              *)
(* analyze_batch and is read only by the properties.                       *)
(***************************************************************************)
SigDump ==
    [token_symbol |-> "DUMP", insider_sells_24h |-> 7, insider_sell_volume_usd |-> 600000,
     liquidity_change_24h |-> -50, tvl_change_24h |-> -45,
     twitter_engagement_change_48h |-> -70, dev_departures_30d |-> 0,
     influencer_silence_hours |-> 10, vote_passed |-> FALSE, recent_vote_type |-> "neutral"]

SigQuiet ==
    [token_symbol |-> "QUIET", insider_sells_24h |-> 0, insider_sell_volume_usd |-> 0,
     liquidity_change_24h |-> 5, tvl_change_24h |-> 2,
     twitter_engagement_change_48h |-> 0, dev_departures_30d |-> 3,
     influencer_silence_hours |-> 80, vote_passed |-> TRUE, recent_vote_type |-> "inflation"]

SigWatch ==
    [token_symbol |-> "WATCH", insider_sells_24h |-> 6, insider_sell_volume_usd |-> 500001,
     liquidity_change_24h |-> -41, tvl_change_24h |-> -40,
     twitter_engagement_change_48h |-> -60, dev_departures_30d |-> 2,
     influencer_silence_hours |-> 72, vote_passed |-> TRUE, recent_vote_type |-> "inflation"]

\* length of one token's formatted text with a short / a long Tier-1 reasoning
ShortText == 672

LongText == 6632

Flagged(i, sig, c) ==
    [id |-> i, urgency_score |-> i % 11, chars |-> c, signal |-> sig]

(***************************************************************************)
(* _format_tokens_batch, by the length of the text it builds:              *)
(* "\n" + "="*80 + "\n".join(token_texts).                                 *)
(***************************************************************************)
FormatLen(flagged_tokens) ==
    IF flagged_tokens = <<>> THEN HEADER_CHARS
    ELSE HEADER_CHARS + SumChars(flagged_tokens) + (Len(flagged_tokens) - 1)

\* _estimate_token_count
EstimateTokenCount(text_len) == text_len \div CHARS_PER_TOKEN

\* the estimate computed inside _should_split_batch, times SAMPLE_SIZE
\* (avg_tokens_per_item * len(flagged_tokens) = EstimateTimes5 / 5)
EstimateTimes5(flagged_tokens) ==
    EstimateTokenCount(FormatLen(Prefix(flagged_tokens, SAMPLE_SIZE))) * Len(flagged_tokens)

\* _should_split_batch
ShouldSplitBatch(flagged_tokens) ==
    IF Len(flagged_tokens) <= MAX_BATCH_SIZE THEN FALSE
    ELSE EstimateTimes5(flagged_tokens) > MAX_TOKENS_PER_BATCH * SAMPLE_SIZE

(***************************************************************************)
(* The split plan of _analyze_with_splitting.                              *)
(***************************************************************************)
\* the chunk size without the cap at MAX_BATCH_SIZE
ChunkSizeUncapped(n) == CeilDiv(n, 3)

\* a chunk size that rounds the third down
ChunkSizeFloor(n) == Min(MAX_BATCH_SIZE, IF n \div 3 = 0 THEN 1 ELSE n \div 3)

ChunkSize(n) == Min(MAX_BATCH_SIZE, CeilDiv(n, 3))

\* [flagged_tokens[i:i + chunk_size] for i in range(0, len(flagged_tokens), chunk_size)]
SplitChunks(flagged_tokens) ==
    LET n  == Len(flagged_tokens)
        cs == ChunkSize(n)
    IN  IF n = 0 THEN <<>>
        ELSE [k \in 1..CeilDiv(n, cs) |->
                 SubSeq(flagged_tokens, (k - 1) * cs + 1, Min(k * cs, n))]

(***************************************************************************)
(* _mock_analyze_batch: the rule-based analyzer (mock mode and fallback).  *)
(***************************************************************************)
\* the confidence accumulated from the red-flag predicates
RuleConfidence(signal) ==
      (IF signal.insider_sells_24h > 5 /\ signal.insider_sell_volume_usd > 500000 THEN 25 ELSE 0)
    + (IF signal.liquidity_change_24h < -40 THEN 20 ELSE 0)
    + (IF signal.tvl_change_24h < -40 THEN 20 ELSE 0)
    + (IF signal.twitter_engagement_change_48h < -60 THEN 15 ELSE 0)
    + (IF signal.dev_departures_30d > 2 THEN 10 ELSE 0)
    + (IF signal.influencer_silence_hours > 72 THEN 10 ELSE 0)
    + (IF signal.vote_passed /\ signal.recent_vote_type = "treasury_raid" THEN 15
       ELSE IF signal.vote_passed /\ signal.recent_vote_type = "inflation" THEN 10 ELSE 0)

\* a decision rule whose SHORT threshold is strict
RuleDecisionStrict(confidence) ==
    IF confidence > 70 THEN "SHORT" ELSE IF confidence >= 50 THEN "MONITOR" ELSE "PASS"

RuleDecision(confidence) ==
    IF confidence >= 70 THEN "SHORT" ELSE IF confidence >= 50 THEN "MONITOR" ELSE "PASS"

RulePositionSize(confidence) ==
    IF confidence >= 90 THEN 20 ELSE IF confidence >= 80 THEN 15
    ELSE IF confidence >= 70 THEN 10 ELSE 0

\* a rule-based plan whose confidence also depends on where the token
\* stands in its list
MockPlanByPosition(flagged) ==
    LET confidence == Min(RuleConfidence(flagged.signal) + 10 * (flagged.id - 1), 100)
    IN  [token_symbol |-> flagged.signal.token_symbol,
         decision |-> RuleDecision(confidence),
         confidence |-> confidence,
         position_size_percent |-> RulePositionSize(confidence),
         leverage |-> IF confidence < 85 THEN 2 ELSE 5,
         urgency_score |-> flagged.urgency_score,
         src |-> "local", item |-> flagged.id, pos |-> 0, tag |-> 0]

\* one TradePlan of the rule-based analyzer; src, item, pos and tag are read
\* only by the properties: which analyzer built the plan, for which flagged
\* token, at which position of its request, from which object of the answer
MockPlan(flagged) ==
    LET confidence == RuleConfidence(flagged.signal)
    IN  [token_symbol          |-> flagged.signal.token_symbol,
         decision              |-> RuleDecision(confidence),
         confidence            |-> Min(confidence, 100),
         position_size_percent |-> RulePositionSize(confidence),
         leverage              |-> IF confidence < 85 THEN 2 ELSE 5,
         urgency_score         |-> flagged.urgency_score,
         src                   |-> "local",
         item                  |-> flagged.id,
         pos                   |-> 0,
         tag                   |-> 0]

MockAnalyzeBatch(flagged_tokens) ==
    [k \in 1..Len(flagged_tokens) |-> MockPlan(flagged_tokens[k])]

(***************************************************************************)
(* _parse_gemini_response.  A decision object of the remote response is a  *)
(* record; ok = FALSE stands for an object lacking a required key or       *)
(* having fewer than three take-profit levels (KeyError / IndexError);     *)
(* tag is the position the remote gave the object in its answer.           *)
(***************************************************************************)
RemotePlan(analysis, flagged, k) ==
    [token_symbol          |-> analysis.token_symbol,
     decision              |-> analysis.decision,
     confidence            |-> analysis.confidence,
     position_size_percent |-> analysis.position_size_percent,
     leverage              |-> analysis.leverage,
     urgency_score         |-> flagged.urgency_score,
     src                   |-> "remote",
     item                  |-> flagged.id,
     pos                   |-> k,
     tag                   |-> analysis.tag]

\* the loop over zip(analyses, flagged_tokens): a failing object is skipped
RECURSIVE ZipPlans(_, _, _)
ZipPlans(analyses, flagged_tokens, k) ==
    IF k > Len(analyses) \/ k > Len(flagged_tokens) THEN <<>>
    ELSE (IF analyses[k].ok THEN <<RemotePlan(analyses[k], flagged_tokens[k], k)>> ELSE <<>>)
         \o ZipPlans(analyses, flagged_tokens, k + 1)

\* the parser without the length check, trusting what the answer holds
ParsePartialTrust(analyses, flagged_tokens) ==
    ZipPlans(analyses, flagged_tokens, 1)
    \o MockAnalyzeBatch(SubSeq(flagged_tokens, Len(analyses) + 1, Len(flagged_tokens)))

\* a parser that gives the whole batch to the rule-based analyzer when one
\* decision object cannot be read
ParseAllOrNothing(analyses, flagged_tokens) ==
    IF Len(analyses) # Len(flagged_tokens) \/ \E k \in 1..Len(analyses) : ~analyses[k].ok
    THEN MockAnalyzeBatch(flagged_tokens)
    ELSE ZipPlans(analyses, flagged_tokens, 1)

ParseGeminiResponse(analyses, flagged_tokens) ==
    IF Len(analyses) # Len(flagged_tokens) THEN MockAnalyzeBatch(flagged_tokens)
    ELSE ZipPlans(analyses, flagged_tokens, 1)

(***************************************************************************)
(* The model fallback chain.                                               *)
(***************************************************************************)
\* _get_current_model
GetCurrentModel(index) == MODELS[Min(index, Len(MODELS) - 1) + 1]

\* a fallback chain that starts over after its last model
FallbackWraps(a) ==
    [advanced |-> TRUE,
     a |-> [index |-> (a.index + 1) % Len(MODELS),
            stats |-> [a.stats EXCEPT !.model_fallbacks = @ + 1]]]

\* _fallback_to_next_model on analyzer state a = [index, stats]
\* a fallback that counts in model_fallbacks also the request it refuses at
\* the last model
FallbackCountsRefusals(a) ==
    IF a.index < Len(MODELS) - 1
    THEN [a |-> [a EXCEPT !.index = @ + 1, !.stats.model_fallbacks = @ + 1],
          advanced |-> TRUE]
    ELSE [a |-> [a EXCEPT !.stats.model_fallbacks = @ + 1], advanced |-> FALSE]

FallbackToNextModel(a) ==
    IF a.index < Len(MODELS) - 1
    THEN [advanced |-> TRUE,
          a |-> [index |-> a.index + 1,
                 stats |-> [a.stats EXCEPT !.model_fallbacks = @ + 1]]]
    ELSE [advanced |-> FALSE, a |-> a]

(***************************************************************************)
(* SignalClassifier (src/agent/signal_classifier.py).  Strings that the    *)
(* code lower-cases or searches are modelled by tables over the strings    *)
(* the model uses.  An Optional field is <<>> (None) or <<v>>.  Prices are *)
(* integers in units of 1e-7; bounce_target is in tenths of that unit and  *)
(* confidence_multiplier in tenths.                                        *)
(***************************************************************************)
BLUE_CHIP_TOKENS ==
    [s \in {"WETH", "WBTC", "LINK", "UNI"} |->
        CASE s = "WETH" -> "0x82aF49447D8a07e3bd95BD0d56f35241523fBab1"
          [] s = "WBTC" -> "0x2f2a2543B76A4166549F7aaB2e75Bef0aefC5B0f"
          [] s = "LINK" -> "0xf97f4df75117a78c1A5a0DBb814Af92458539FB4"
          [] s = "UNI"  -> "0xFa7F8980b0f1E64A2062791cc3b0871572f1F7f0"]

PEPE_ADDRESS == "0x6982508145454Ce325dDbE47a25d4ec3d2311933"

CHAIN_CORRELATIONS ==
    [c \in {"base", "ethereum", "arbitrum", "optimism", "polygon", "bsc"} |->
        IF c = "bsc" THEN "WBTC" ELSE "WETH"]

\* str.lower() on the addresses and chains of the model
Lower(str) ==
    CASE str = "0x82aF49447D8a07e3bd95BD0d56f35241523fBab1" -> "0x82af49447d8a07e3bd95bd0d56f35241523fbab1"
      [] str = "0x2f2a2543B76A4166549F7aaB2e75Bef0aefC5B0f" -> "0x2f2a2543b76a4166549f7aab2e75bef0aefc5b0f"
      [] str = "0xf97f4df75117a78c1A5a0DBb814Af92458539FB4" -> "0xf97f4df75117a78c1a5a0dbb814af92458539fb4"
      [] str = "0xFa7F8980b0f1E64A2062791cc3b0871572f1F7f0" -> "0xfa7f8980b0f1e64a2062791cc3b0871572f1f7f0"
      [] str = "0xF97F4DF75117A78C1A5A0DBB814AF92458539FB4" -> "0xf97f4df75117a78c1a5a0dbb814af92458539fb4"
      [] str = "0x6982508145454Ce325dDbE47a25d4ec3d2311933" -> "0x6982508145454ce325ddbe47a25d4ec3d2311933"
      [] str = "BSC" -> "bsc"
      [] str = "Base" -> "base"
      [] OTHER -> str

memecoin_keywords == {"PEPE", "SHIB", "DOGE", "FLOKI", "ELON", "WOJAK", "TURBO"}

defi_keywords == {"AAVE", "UNI", "CRV", "SNX", "MKR", "COMP", "SUSHI"}

\* the keywords k with  k in symbol.upper(), for the symbols of the model
KeywordsIn(symbol) ==
    CASE symbol = "UNI"      -> {"UNI"}
      [] symbol = "PEPE"     -> {"PEPE"}
      [] symbol = "BabyDoge" -> {"DOGE"}
      [] symbol = "AAVE"     -> {"AAVE"}
      [] symbol = "uniBOT"   -> {"UNI"}
      [] symbol = "SHIBUNI"  -> {"SHIB", "UNI"}
      [] OTHER -> {}

\* a token typing that looks at the symbol only
ClassifyTokenBySymbol(symbol, address) ==
    IF symbol \in DOMAIN BLUE_CHIP_TOKENS THEN "BLUE_CHIP"
    ELSE IF KeywordsIn(symbol) \cap memecoin_keywords # {} THEN "MEMECOIN"
    ELSE IF KeywordsIn(symbol) \cap defi_keywords # {} THEN "DEFI"
    ELSE "MEMECOIN"

\* a token typing that tests the defi keywords before the memecoin keywords
ClassifyTokenDefiFirst(symbol, address) ==
    IF symbol \in DOMAIN BLUE_CHIP_TOKENS THEN "BLUE_CHIP"
    ELSE IF Lower(address) \in {Lower(BLUE_CHIP_TOKENS[t]) : t \in DOMAIN BLUE_CHIP_TOKENS}
    THEN "BLUE_CHIP"
    ELSE IF KeywordsIn(symbol) \cap defi_keywords # {} THEN "DEFI"
    ELSE IF KeywordsIn(symbol) \cap memecoin_keywords # {} THEN "MEMECOIN"
    ELSE "MEMECOIN"

\* _classify_token
ClassifyToken(symbol, address) ==
    IF symbol \in DOMAIN BLUE_CHIP_TOKENS THEN "BLUE_CHIP"
    ELSE IF Lower(address) \in {Lower(BLUE_CHIP_TOKENS[t]) : t \in DOMAIN BLUE_CHIP_TOKENS}
    THEN "BLUE_CHIP"
    ELSE IF KeywordsIn(symbol) \cap memecoin_keywords # {} THEN "MEMECOIN"
    ELSE IF KeywordsIn(symbol) \cap defi_keywords # {} THEN "DEFI"
    ELSE "MEMECOIN"

\* Classification(strategy, token_type) with the defaults of the dataclass
Classification(strategy, token_type) ==
    [strategy |-> strategy, token_type |-> token_type, market_phase |-> <<>>,
     correlated_asset |-> <<>>, current_price |-> <<>>, price_drop_24h |-> <<>>,
     bounce_target |-> <<>>, confidence_multiplier |-> 10]

\* what _get_price_data may give: None (or an empty dict, which the code
\* treats alike), or a dict with current, change_24h, volume_spike (and
\* liquidity, which nothing reads)
NoPriceData == [present |-> FALSE, current |-> 0, change_24h |-> 0, volume_spike |-> FALSE]

PriceData(current, change_24h, volume_spike) ==
    [present |-> TRUE, current |-> current, change_24h |-> change_24h,
     volume_spike |-> volume_spike]

\* a phase test whose bounds include the thresholds
DetectMarketPhaseInclusive(price_data) ==
    LET change_24h   == price_data.change_24h
        volume_spike == price_data.volume_spike
    IN  IF change_24h <= -60 THEN "POST_RUG"
        ELSE IF change_24h >= 20 /\ volume_spike THEN "PRE_RUG"
        ELSE IF -60 < change_24h /\ change_24h <= -20 THEN "PRE_RUG"
        ELSE "UNCLEAR"

\* _detect_market_phase
DetectMarketPhase(price_data) ==
    LET change_24h   == price_data.change_24h
        volume_spike == price_data.volume_spike
    IN  IF change_24h < -60 THEN "POST_RUG"
        ELSE IF change_24h > 20 /\ volume_spike THEN "PRE_RUG"
        ELSE IF -60 < change_24h /\ change_24h < -20 THEN "PRE_RUG"
        ELSE "UNCLEAR"

\* a correlation that knows one asset
GetCorrelatedAssetOnlyWeth(chain) == "WETH"

\* _get_correlated_asset
GetCorrelatedAsset(chain) ==
    IF Lower(chain) \in DOMAIN CHAIN_CORRELATIONS THEN CHAIN_CORRELATIONS[Lower(chain)]
    ELSE "WETH"

\* _classify_blue_chip
ClassifyBlueChip(plan) == Classification("GMX_SHORT", "BLUE_CHIP")

\* _classify_memecoin without its check of the price data: what is missing
\* reads as no change
ClassifyMemecoinUnguarded(plan, price_data) ==
    LET market_phase == DetectMarketPhase(price_data)
    IN  IF market_phase = "PRE_RUG"
        THEN [Classification("CORRELATED_SHORT", "MEMECOIN") EXCEPT
                !.market_phase = <<"PRE_RUG">>,
                !.correlated_asset = <<GetCorrelatedAsset(plan.chain)>>,
                !.confidence_multiplier = 7]
        ELSE IF market_phase = "POST_RUG"
        THEN [Classification("DIP_BUY", "MEMECOIN") EXCEPT
                !.market_phase = <<"POST_RUG">>,
                !.current_price = <<price_data.current>>,
                !.price_drop_24h = <<price_data.change_24h>>,
                !.bounce_target = <<price_data.current * 14>>,
                !.confidence_multiplier = 8]
        ELSE [Classification("SKIP", "MEMECOIN") EXCEPT !.market_phase = <<"UNCLEAR">>]

\* _classify_memecoin, price_data being what _get_price_data returned
ClassifyMemecoin(plan, price_data) ==
    IF ~price_data.present THEN Classification("SKIP", "MEMECOIN")
    ELSE LET market_phase == DetectMarketPhase(price_data)
         IN  IF market_phase = "PRE_RUG"
             THEN [Classification("CORRELATED_SHORT", "MEMECOIN") EXCEPT
                     !.market_phase = <<"PRE_RUG">>,
                     !.correlated_asset = <<GetCorrelatedAsset(plan.chain)>>,
                     !.confidence_multiplier = 7]
             ELSE IF market_phase = "POST_RUG"
             THEN [Classification("DIP_BUY", "MEMECOIN") EXCEPT
                     !.market_phase = <<"POST_RUG">>,
                     !.current_price = <<price_data.current>>,
                     !.price_drop_24h = <<price_data.change_24h>>,
                     !.bounce_target = <<price_data.current * 14>>,
                     !.confidence_multiplier = 8]
             ELSE [Classification("SKIP", "MEMECOIN") EXCEPT !.market_phase = <<"UNCLEAR">>]

\* a _classify_defi that puts its own token type on the result
ClassifyDefiTyped(plan, price_data) ==
    [ClassifyMemecoin(plan, price_data) EXCEPT !.token_type = "DEFI"]

\* _classify_defi
ClassifyDefi(plan, price_data) == ClassifyMemecoin(plan, price_data)

\* classify; price_reads counts the calls of _get_price_data
Classify(trade_plan, price_data) ==
    LET token_type == ClassifyToken(trade_plan.token_symbol, trade_plan.token_address)
    IN  IF token_type = "BLUE_CHIP"
        THEN [classification |-> ClassifyBlueChip(trade_plan), price_reads |-> 0]
        ELSE IF token_type = "MEMECOIN"
        THEN [classification |-> ClassifyMemecoin(trade_plan, price_data), price_reads |-> 1]
        ELSE IF token_type = "DEFI"
        THEN [classification |-> ClassifyDefi(trade_plan, price_data), price_reads |-> 1]
        ELSE [classification |-> Classification("SKIP", "UNKNOWN"), price_reads |-> 0]

(***************************************************************************)
(* OrchestrationEngine (src/agent/orchestration.py): process_tier2_batch   *)
(* and _execute_trade_plans.  The engine is a record:                      *)
(*   phase:       "idle", "exec" (inside the loop of _execute_trade_plans) *)
(*                or "returned"                                            *)
(*   enabled:     self.blockchain.enabled                                  *)
(*   trade_plans: what analyze_batch returned to process_tier2_batch       *)
(*   stored:      self.trade_plans                                         *)
(*   stats:       the tier2 counters and the length of stats["errors"]     *)
(*   idx:         the position of the loop in trade_plans                  *)
(*   log:         per SHORT plan met by the loop, what happened (history): *)
(*                its position, whether classify returned, the strategy,   *)
(*                the executor call made and how the execution ended       *)
(*   returned:    what process_tier2_batch returned                        *)
(***************************************************************************)
\* x or default, for an Optional x
OrElse(x, default) == IF x = <<>> THEN default ELSE x[1]

\* ClassifierTradePlan(...) as _execute_trade_plans builds it
ClassifierPlan(plan) ==
    [token_symbol |-> plan.token_symbol,
     token_address |-> OrElse(plan.token_address, ""),
     chain |-> OrElse(plan.chain, "arbitrum")]

NewEngine(enabled) ==
    [phase |-> "idle", enabled |-> enabled, trade_plans |-> <<>>, stored |-> <<>>,
     stats |-> [tier2_analyzed |-> 0, tier2_shorts |-> 0, tier2_monitors |-> 0,
                tier2_passes |-> 0, errors |-> 0],
     idx |-> 0, log |-> <<>>, returned |-> <<>>, raised |-> FALSE]

\* a statistics loop that counts as a pass only the decision PASS
RECURSIVE Tier2StatsNamedPass(_, _)
Tier2StatsNamedPass(st, trade_plans) ==
    IF trade_plans = <<>> THEN st
    ELSE LET d  == Head(trade_plans).decision
             s1 == [st EXCEPT !.tier2_analyzed = @ + 1]
             s2 == IF d = "SHORT" THEN [s1 EXCEPT !.tier2_shorts = @ + 1]
                   ELSE IF d = "MONITOR" THEN [s1 EXCEPT !.tier2_monitors = @ + 1]
                   ELSE IF d = "PASS" THEN [s1 EXCEPT !.tier2_passes = @ + 1]
                   ELSE s1
         IN  Tier2StatsNamedPass(s2, Tail(trade_plans))

\* the statistics loop of process_tier2_batch
RECURSIVE Tier2Stats(_, _)
Tier2Stats(st, trade_plans) ==
    IF trade_plans = <<>> THEN st
    ELSE LET d  == Head(trade_plans).decision
             s1 == [st EXCEPT !.tier2_analyzed = @ + 1]
             s2 == IF d = "SHORT" THEN [s1 EXCEPT !.tier2_shorts = @ + 1]
                   ELSE IF d = "MONITOR" THEN [s1 EXCEPT !.tier2_monitors = @ + 1]
                   ELSE [s1 EXCEPT !.tier2_passes = @ + 1]
         IN  Tier2Stats(s2, Tail(trade_plans))

\* process_tier2_batch from its first line to the loop of
\* _execute_trade_plans; analysis is what analyze_batch did: it returned
\* plans or raised
EnterTier2(e, flagged, analysis) ==
    IF flagged = 0 THEN [e EXCEPT !.phase = "returned", !.returned = <<>>]
    ELSE IF analysis.raised
    THEN [e EXCEPT !.phase = "returned", !.returned = <<>>, !.raised = TRUE,
                   !.stats.errors = @ + 1]
    ELSE LET e1 == [e EXCEPT !.trade_plans = analysis.plans,
                             !.stats = Tier2Stats(@, analysis.plans),
                             !.stored = @ \o analysis.plans]
         IN  IF ~e.enabled
             THEN [e1 EXCEPT !.phase = "returned", !.returned = analysis.plans]
             ELSE [e1 EXCEPT !.phase = "exec", !.idx = 1]

\* a call of an executor of self.blockchain: its name and the token it is
\* about (index_token of execute_short, token of execute_dip_buy)
ExecutorCall(fn, target) == <<[fn |-> fn, target |-> target]>>

\* _execute_gmx_short
ExecuteGmxShort(plan, classification) ==
    ExecutorCall("execute_short", plan.token_symbol)

\* a correlated short that shorts the plan's own token
ExecuteCorrelatedShortOwnToken(plan, classification) ==
    ExecutorCall("execute_short", plan.token_symbol)

\* _execute_correlated_short
ExecuteCorrelatedShort(plan, classification) ==
    ExecutorCall("execute_short", OrElse(classification.correlated_asset, "WETH"))

\* _execute_dip_buy: no call when the drop is known, not zero and above -60
ExecuteDipBuy(plan, classification) ==
    LET price_drop_24h == classification.price_drop_24h
    IN  IF price_drop_24h # <<>> /\ price_drop_24h[1] # 0 /\ price_drop_24h[1] > -60
        THEN <<>>
        ELSE ExecutorCall("execute_dip_buy", OrElse(plan.token_address, ""))

\* the routing of _execute_trade_plans: the executor call a classified plan
\* leads to, <<>> when there is none
RouteCall(plan, classification) ==
    IF classification.strategy = "GMX_SHORT" THEN ExecuteGmxShort(plan, classification)
    ELSE IF classification.strategy = "CORRELATED_SHORT"
    THEN ExecuteCorrelatedShort(plan, classification)
    ELSE IF classification.strategy = "DIP_BUY" THEN ExecuteDipBuy(plan, classification)
    ELSE <<>>

\* an engine whose loop lets the failure of one plan leave
\* _execute_trade_plans: process_tier2_batch catches it and returns []
ExecuteTradePlanFailFast(e, price_data, classify_fails, execute_fails) ==
    LET plan == e.trade_plans[e.idx]
        c    == Classify(ClassifierPlan(plan), price_data).classification
    IN  IF plan.decision # "SHORT" THEN [e EXCEPT !.idx = @ + 1]
        ELSE IF classify_fails \/ (execute_fails /\ c.strategy # "SKIP")
        THEN [e EXCEPT !.phase = "returned", !.returned = <<>>, !.stats.errors = @ + 1,
                       !.log = Append(@, [i |-> e.idx, classified |-> ~classify_fails,
                                         strategy |-> "NONE", call |-> <<>>,
                                         executed |-> "failed"])]
        ELSE [e EXCEPT !.idx = @ + 1,
                       !.log = Append(@, [i |-> e.idx, classified |-> TRUE,
                                         strategy |-> c.strategy,
                                         call |-> RouteCall(plan, c),
                                         executed |-> IF RouteCall(plan, c) = <<>> THEN "none"
                                                      ELSE "ok"])]

\* one iteration of the loop of _execute_trade_plans: the plan at idx is
\* classified and handed to the execution method of its strategy; either
\* may fail
ExecuteTradePlan(e, price_data, classify_fails, execute_fails) ==
    LET plan == e.trade_plans[e.idx]
        c    == Classify(ClassifierPlan(plan), price_data).classification
    IN  IF plan.decision # "SHORT" THEN [e EXCEPT !.idx = @ + 1]
        ELSE IF classify_fails
        THEN [e EXCEPT !.idx = @ + 1,
                       !.log = Append(@, [i |-> e.idx, classified |-> FALSE,
                                         strategy |-> "NONE", call |-> <<>>,
                                         executed |-> "none"])]
        ELSE [e EXCEPT !.idx = @ + 1,
                       !.log = Append(@, [i |-> e.idx, classified |-> TRUE,
                                         strategy |-> c.strategy,
                                         call |-> RouteCall(plan, c),
                                         executed |-> IF RouteCall(plan, c) = <<>> THEN "none"
                                                      ELSE IF execute_fails THEN "failed"
                                                      ELSE "ok"])]

\* the loop is over: _execute_trade_plans returns, process_tier2_batch
\* returns trade_plans
LeaveTier2(e) == [e EXCEPT !.phase = "returned", !.returned = e.trade_plans]

(***************************************************************************)
(* State.                                                                  *)
(*   mock_mode, current_model_index, stats: fields of the analyzer         *)
(*   status: "idle" before the first call, "busy" inside analyze_batch,    *)
(*           "returned" after it returned, "raised" after an exception     *)
(*           left it                                                       *)
(*   flagged_in: the argument of the current (or last) analyze_batch call  *)
(*   result:     the list the last analyze_batch call returned             *)
(*   stack:      the activation records of _gemini_analyze_batch and       *)
(*               _analyze_with_splitting, innermost last                   *)
(*   used:       the part of the bound on the run used so far: flagged     *)
(*               tokens handed in (Spec), calls made (SustainedSpec)       *)
(*   env:        the behaviour of the remote service: "free" (any outcome  *)
(*               at any call) or one outcome sustained for a whole call    *)
(*   faults:     remote calls that failed so far                           *)
(*   trace:      what the current call has done so far (history)           *)
(*   sizer:      under SizerSpec, a list of flagged tokens with the split  *)
(*               decision and the split plan computed for it               *)
(*   limiter:    the clock as _rate_limit reads it (below)                 *)
(*   router:     under ClassifierSpec, a plan, the price data and the      *)
(*               Classification that classify returned for them            *)
(*   engine:     under PipelineSpec, the OrchestrationEngine               *)
(***************************************************************************)
VARIABLES mock_mode, current_model_index, stats, status, flagged_in, result,
          stack, used, env, faults, trace, sizer, limiter, router, engine

vars == <<mock_mode, current_model_index, stats, status, flagged_in, result,
          stack, used, env, faults, trace, sizer, limiter, router, engine>>

(***************************************************************************)
(* The clock and _rate_limit.  The analyzer reads the clock only as        *)
(* time.time() - self.last_request_time, compared with                     *)
(* self.min_request_interval; limiter.elapsed is that difference in ticks, *)
(* saturated at the interval.  The other fields are history:               *)
(*   n:      1 after the first _rate_limit of the analyzer, 2 after every  *)
(*           later one, 0 before                                           *)
(*   waited: the sleep_time of the last _rate_limit (0: it did not sleep)  *)
(*   gap:    ticks between the returns of the last two _rate_limit calls,  *)
(*           saturated at the interval                                     *)
(* The clock is observed when env = "timed"; otherwise limiter stays as    *)
(* it is.                                                                  *)
(***************************************************************************)
min_request_interval == MIN_REQUEST_INTERVAL_S * TicksPerSecond

\* last_request_time = 0 and time.time(), seconds since 1970, at __init__
NewLimiter == [elapsed |-> min_request_interval, n |-> 0, waited |-> 0, gap |-> 0]

\* time.sleep(seconds), and any wait of at least that long
Sleep(l, seconds) ==
    [l EXCEPT !.elapsed = Min(@ + seconds * TicksPerSecond, min_request_interval)]

\* a limiter that stamps the request time and never sleeps
RateLimitNoSleep(l) ==
    [elapsed |-> 0, n |-> Min(l.n + 1, 2), waited |-> 0, gap |-> l.elapsed]

\* _rate_limit
RateLimit(l) ==
    LET elapsed    == l.elapsed
        sleep_time == IF elapsed < min_request_interval
                      THEN min_request_interval - elapsed ELSE 0
        slept      == [l EXCEPT !.elapsed = Min(@ + sleep_time, min_request_interval)]
    IN  [elapsed |-> 0, n |-> Min(l.n + 1, 2), waited |-> sleep_time, gap |-> slept.elapsed]

FreeModes == {"free", "timed"}

\* l after what the program did with the clock, when the clock is observed
Timed(l_new) == IF env = "timed" THEN l_new ELSE limiter

\* self.stats of __init__
InitStats ==
    [total_analyzed |-> 0, total_shorts |-> 0, total_monitors |-> 0, total_passes |-> 0,
     total_api_cost_usd |-> 0, api_errors |-> 0, batch_requests |-> 0, rate_limit_hits |-> 0,
     model_fallbacks |-> 0, batches_split |-> 0]

NoFallback == [called |-> FALSE, before |-> 0, after |-> 0, advanced |-> FALSE]

FreshTrace(last_model) ==
    [n_remote |-> 0, n_splits |-> 0, n_chunk_sleeps |-> 0,
     first_splits |-> -1, last_model |-> last_model, last_size |-> 0,
     delays |-> <<>>, ev |-> "call", ret |-> <<>>, fb |-> NoFallback, bad |-> {}]

(***************************************************************************)
(* Activation records.                                                     *)
(***************************************************************************)
\* _gemini_analyze_batch(flagged_tokens), at its first line
GabFrame(flagged_tokens) ==
    [fn |-> "gab", pc |-> "entry", items |-> flagged_tokens, retry_attempt |-> 0,
     chunks |-> <<>>, idx |-> 0, all_trade_plans |-> <<>>]

\* _analyze_with_splitting(flagged_tokens), at its first line
SplitFrame(flagged_tokens) ==
    [fn |-> "split", pc |-> "start", items |-> flagged_tokens, retry_attempt |-> 0,
     chunks |-> <<>>, idx |-> 0, all_trade_plans |-> <<>>]

Top == stack[Len(stack)]

Pop(stk) == SubSeq(stk, 1, Len(stk) - 1)

SetTop(stk, f) == [stk EXCEPT ![Len(stk)] = f]

\* a return path that goes to the next chunk without the delay
RECURSIVE UnwindNoDelay(_, _)
UnwindNoDelay(stk, trade_plans) ==
    IF stk = <<>> THEN [stack |-> <<>>, done |-> TRUE, plans |-> trade_plans, slept |-> 0]
    ELSE LET f   == stk[Len(stk)]
             all == f.all_trade_plans \o trade_plans
         IN  IF f.idx < Len(f.chunks)
             THEN [stack |-> SetTop(stk, [f EXCEPT !.all_trade_plans = all, !.idx = f.idx + 1]),
                   done  |-> FALSE, plans |-> <<>>, slept |-> 0]
             ELSE UnwindNoDelay(Pop(stk), all)

\* a return path that puts the plans of a chunk before those of the chunks
\* processed earlier
RECURSIVE UnwindPrepending(_, _)
UnwindPrepending(stk, trade_plans) ==
    IF stk = <<>> THEN [stack |-> <<>>, done |-> TRUE, plans |-> trade_plans, slept |-> 0]
    ELSE LET f   == stk[Len(stk)]
             all == trade_plans \o f.all_trade_plans
         IN  IF f.idx < Len(f.chunks)
             THEN [stack |-> SetTop(stk, [f EXCEPT !.all_trade_plans = all, !.idx = f.idx + 1]),
                   done  |-> FALSE, plans |-> <<>>, slept |-> 1]
             ELSE UnwindPrepending(Pop(stk), all)

(***************************************************************************)
(* Returning trade_plans from the innermost _gemini_analyze_batch into its *)
(* callers: the loop body of _analyze_with_splitting after the recursive   *)
(* call (extend, sleep between chunks, next chunk or return).              *)
(* stk is the stack below the returning activation.                        *)
(***************************************************************************)
RECURSIVE Unwind(_, _)
Unwind(stk, trade_plans) ==
    IF stk = <<>> THEN [stack |-> <<>>, done |-> TRUE, plans |-> trade_plans, slept |-> 0]
    ELSE LET f   == stk[Len(stk)]
             all == f.all_trade_plans \o trade_plans
         IN  IF f.idx < Len(f.chunks)
             THEN [stack |-> SetTop(stk, [f EXCEPT !.all_trade_plans = all, !.idx = f.idx + 1]),
                   done  |-> FALSE, plans |-> <<>>, slept |-> 1]
             ELSE Unwind(Pop(stk), all)

\* the statistics loop at the end of analyze_batch
RECURSIVE CountPlans(_, _)
CountPlans(st, trade_plans) ==
    IF trade_plans = <<>> THEN st
    ELSE LET d  == Head(trade_plans).decision
             s1 == [st EXCEPT !.total_analyzed = @ + 1]
             s2 == IF d = "SHORT" THEN [s1 EXCEPT !.total_shorts = @ + 1]
                   ELSE IF d = "MONITOR" THEN [s1 EXCEPT !.total_monitors = @ + 1]
                   ELSE [s1 EXCEPT !.total_passes = @ + 1]
         IN  CountPlans(s2, Tail(trade_plans))

\* the analyzer's statistics after the call of analyze_batch that
\* process_tier2_batch makes for `flagged` tokens: no call for none, no
\* count when the call raised, the statistics loop over the plans returned
AnalyzeBatchStats(st, flagged, analysis) ==
    IF flagged = 0 \/ analysis.raised THEN st
    ELSE CountPlans(st, analysis.plans)

analyzer_rest == <<mock_mode, current_model_index, status, flagged_in, result,
                   stack, used, env, faults, trace, limiter>>

(***************************************************************************)
(* The remote service.  A failure is the exception as the handler reads    *)
(* it: nf = code 404 or a text showing 404 / NOT_FOUND, rl = code 429 or a *)
(* text showing 429 / RESOURCE_EXHAUSTED, quota = a text containing        *)
(* "quota", bad_body = the JSON the handler extracts from the exception    *)
(* is not an object, or its "error" member is not an object (for instance  *)
(* the text HTTP 500: {"error": "Unauthorized"}).                          *)
(***************************************************************************)
Failures == [nf : BOOLEAN, rl : BOOLEAN, quota : BOOLEAN, bad_body : BOOLEAN]

NOT_FOUND == [nf |-> TRUE, rl |-> FALSE, quota |-> FALSE, bad_body |-> FALSE]

RATE_LIMITED == [nf |-> FALSE, rl |-> TRUE, quota |-> FALSE, bad_body |-> FALSE]

QUOTA_EXHAUSTED == [nf |-> FALSE, rl |-> FALSE, quota |-> TRUE, bad_body |-> FALSE]

OTHER_ERROR == [nf |-> FALSE, rl |-> FALSE, quota |-> FALSE, bad_body |-> FALSE]

BAD_BODY == [nf |-> FALSE, rl |-> FALSE, quota |-> FALSE, bad_body |-> TRUE]

\* the failures a free remote service raises: one of each class, and two
\* whose text matches more than one test of the handler (the quota error of
\* the service reads "429 RESOURCE_EXHAUSTED ... quota")
FreeFailures ==
    {NOT_FOUND, RATE_LIMITED, QUOTA_EXHAUSTED, OTHER_ERROR, BAD_BODY,
     [RATE_LIMITED EXCEPT !.quota = TRUE], [NOT_FOUND EXCEPT !.rl = TRUE]}

\* the failure class, in the order the handler meets it
FailureClass(e) ==
    IF e.bad_body THEN "BAD_BODY"
    ELSE IF e.nf THEN "NOT_FOUND" ELSE IF e.rl THEN "RATE_LIMITED"
    ELSE IF e.quota THEN "QUOTA_EXHAUSTED" ELSE "OTHER"

\* decision objects a response may hold at position k
GoodObject(k, d) ==
    [ok |-> TRUE, token_symbol |-> "REMOTE", decision |-> d,
     confidence |-> IF d = "SHORT" THEN 85 ELSE 10,
     position_size_percent |-> IF d = "SHORT" THEN 15 ELSE 0,
     leverage |-> 2, tag |-> k]

BadObject(k) == [GoodObject(k, "PASS") EXCEPT !.ok = FALSE]

UniformResponse(n, d) == [k \in 1..n |-> GoodObject(k, d)]

\* responses to a request of n tokens when the service is free in its
\* answer: of the right length with one decision throughout and at most one
\* malformed object, in any position; one object short; one object long
FreeResponses(n) ==
    {UniformResponse(n, d) : d \in {"SHORT", "PASS"}}
    \cup {[UniformResponse(n, d) EXCEPT ![j] = BadObject(j)] : d \in {"SHORT", "PASS"}, j \in 1..n}
    \cup {UniformResponse(n + 1, "SHORT")}
    \cup (IF n >= 1 THEN {UniformResponse(n - 1, "SHORT")} ELSE {})

SustainedModes == {"ok", "malformed", "short", "long", "NF", "RL", "Q", "OTHER", "BAD"}

\* outcomes of one remote call for a request of n tokens: [ok, analyses, e]
Outcomes(n, mode) ==
    LET Ok(r)  == [ok |-> TRUE, analyses |-> r, e |-> OTHER_ERROR]
        Err(e) == [ok |-> FALSE, analyses |-> <<>>, e |-> e]
    IN  CASE mode \in FreeModes -> {Ok(r) : r \in FreeResponses(n)} \cup {Err(e) : e \in FreeFailures}
          [] mode = "ok"        -> {Ok(UniformResponse(n, "SHORT"))}
          [] mode = "malformed" -> {Ok([UniformResponse(n, "SHORT") EXCEPT ![1] = BadObject(1)])}
          [] mode = "short"     -> {Ok(UniformResponse(n - 1, "SHORT"))}
          [] mode = "long"      -> {Ok(UniformResponse(n + 1, "SHORT"))}
          [] mode = "NF"        -> {Err(NOT_FOUND)}
          [] mode = "RL"        -> {Err(RATE_LIMITED)}
          [] mode = "Q"         -> {Err(QUOTA_EXHAUSTED)}
          [] mode = "OTHER"     -> {Err(OTHER_ERROR)}
          [] mode = "BAD"       -> {Err(BAD_BODY)}

(***************************************************************************)
(* One iteration of the attempt loop of _gemini_analyze_batch for the      *)
(* activation f, on analyzer state a = [index, stats], with the outcome o  *)
(* of the remote call.  act is what the iteration ends in:                 *)
(*   "return"   return plans                                               *)
(*   "split"    return self._analyze_with_splitting(flagged_tokens)        *)
(*   "continue" go to the next iteration (after sleeping delay, if > 0)    *)
(*   "raise"    an exception leaves the except block                       *)
(***************************************************************************)
RecordFallback(a, fb) ==
    [called |-> TRUE, before |-> a.index, after |-> fb.a.index, advanced |-> fb.advanced]

AttemptResult(act, a, plans, delay, fb) ==
    [act |-> act, a |-> a, plans |-> plans, delay |-> delay, fb |-> fb]

\* a backoff that sleeps the first delay before every retry
\* a backoff indexed by the retries already slept for in a loop whose
\* first tries ended in a model advance: one entry too early
BackoffDelayOneEarlier(retry_attempt) ==
    RETRY_DELAYS[IF retry_attempt = 0 THEN 1 ELSE retry_attempt]

BackoffDelayFirst(retry_attempt) == RETRY_DELAYS[1]

\* the delay slept before the next attempt: RETRY_DELAYS[retry_attempt]
BackoffDelay(retry_attempt) == RETRY_DELAYS[retry_attempt + 1]

\* "flash" in current_model.lower()
IsFlash(current_model) ==
    current_model \in {"gemini-2.0-flash", "gemini-1.5-flash", "gemini-1.5-flash-8b"}

\* a cost estimate that credits the requests served by the free tier
ApiCostWithCredit(current_model, input_chars, output_chars) ==
    IF IsFlash(current_model) THEN -1 ELSE 125 * input_chars + 500 * output_chars

\* the cost estimated for an answered request, in units of 1 / (4 * 10^8)
\* USD: input_chars / 4 / 10^6 * 1.25 + output_chars / 4 / 10^6 * 5.0
ApiCost(current_model, input_chars, output_chars) ==
    IF IsFlash(current_model) THEN 0 ELSE 125 * input_chars + 500 * output_chars

\* the try block after a response arrived; the prompt is counted by its
\* token data and the answer by its number of decision objects
OnResponse(f, a, analyses) ==
    AttemptResult("return",
                  [a EXCEPT !.stats.batch_requests = @ + 1,
                            !.stats.total_api_cost_usd =
                                @ + ApiCost(GetCurrentModel(a.index), FormatLen(f.items),
                                            Len(analyses))],
                  ParseGeminiResponse(analyses, f.items), 0, NoFallback)

\* the except block; error_dict.get('error', {}).get('code', 0) raises
\* AttributeError when the "error" member is no object
OnFailure(f, a, e) ==
    IF e.bad_body
    THEN AttemptResult("raise", a, <<>>, 0, NoFallback)
    ELSE IF e.nf
    THEN LET fb == FallbackToNextModel(a)
         IN  IF fb.advanced
             THEN AttemptResult("continue", fb.a, <<>>, 0, RecordFallback(a, fb))
             ELSE AttemptResult("return", fb.a, MockAnalyzeBatch(f.items), 0,
                                RecordFallback(a, fb))
    ELSE IF e.rl
    THEN LET a1 == [a EXCEPT !.stats.rate_limit_hits = @ + 1]
             fb == FallbackToNextModel(a1)
         IN  IF fb.advanced
             THEN AttemptResult("continue", fb.a, <<>>, 0, RecordFallback(a1, fb))
             ELSE IF Len(f.items) > 1
             THEN AttemptResult("split", fb.a, <<>>, 0, RecordFallback(a1, fb))
             ELSE IF f.retry_attempt < Len(RETRY_DELAYS)
             THEN AttemptResult("continue", fb.a, <<>>, BackoffDelay(f.retry_attempt),
                                RecordFallback(a1, fb))
             ELSE AttemptResult("continue", fb.a, <<>>, 0, RecordFallback(a1, fb))
    ELSE IF e.quota /\ Len(f.items) > 1
    THEN AttemptResult("split", a, <<>>, 0, NoFallback)
    ELSE LET a1 == [a EXCEPT !.stats.api_errors = @ + 1]
         IN  IF f.retry_attempt < Len(RETRY_DELAYS)
             THEN AttemptResult("continue", a1, <<>>, BackoffDelay(f.retry_attempt), NoFallback)
             ELSE AttemptResult("return", a1, MockAnalyzeBatch(f.items), 0, NoFallback)

Attempt(f, a, o) == IF o.ok THEN OnResponse(f, a, o.analyses) ELSE OnFailure(f, a, o.e)

\* range(len(self.RETRY_DELAYS) + 1): the attempts of one loop
AttemptsOneMore == Len(RETRY_DELAYS) + 2

Attempts == Len(RETRY_DELAYS) + 1

(***************************************************************************)
(* The lists given to analyze_batch.                                       *)
(***************************************************************************)
\* under Spec: the lists of at most MaxItems flagged tokens whose signals
\* alternate between a dumped and a quiet token
FreeBatches ==
    {[i \in 1..n |-> Flagged(i, IF i % 2 = 1 THEN SigDump ELSE SigQuiet, ShortText)]
     : n \in 0..MaxItems}

\* under SustainedSpec: uniform lists, also longer than MAX_BATCH_SIZE
SustainedLens == {1, 3, MAX_BATCH_SIZE, MAX_BATCH_SIZE + 1, MAX_BATCH_SIZE + 5}

SustainedBatches ==
    {[i \in 1..n |-> Flagged(i, SigDump, c)] : n \in SustainedLens, c \in {ShortText, LongText}}

(***************************************************************************)
(* Init: the analyzer after __init__, in mock or in production mode.       *)
(***************************************************************************)
InitAnalyzer ==
    /\ mock_mode \in BOOLEAN
    /\ current_model_index = 0
    /\ stats = InitStats
    /\ status = "idle"
    /\ flagged_in = <<>>
    /\ result = <<>>
    /\ stack = <<>>
    /\ used = 0
    /\ faults = 0
    /\ trace = FreshTrace(0)
    /\ limiter = NewLimiter

IdleSizer == [phase |-> "off", items |-> <<>>, split |-> FALSE, chunks |-> <<>>]

IdleRouter ==
    [phase |-> "off", trade_plan |-> [token_symbol |-> "", token_address |-> "", chain |-> ""],
     price_data |-> NoPriceData, classification |-> Classification("SKIP", "UNKNOWN"),
     price_reads |-> 0]

IdleEngine == [NewEngine(FALSE) EXCEPT !.phase = "off"]

\* the components a specification does not run
Idle == sizer = IdleSizer /\ router = IdleRouter /\ engine = IdleEngine

Init == InitAnalyzer /\ env = "free" /\ Idle

InitSustained == InitAnalyzer /\ env = "ok" /\ Idle

(***************************************************************************)
(* Actions.                                                                *)
(***************************************************************************)
\* trade_plans leave the innermost _gemini_analyze_batch, whose callers are
\* stk; when the outermost returns, analyze_batch updates the statistics
\* and returns
Return(stk, a, trade_plans, tr, lim) ==
    LET u == Unwind(stk, trade_plans)
    IN  /\ stack' = u.stack
        /\ limiter' = Timed(IF u.slept = 1 THEN Sleep(lim, CHUNK_DELAY) ELSE lim)
        /\ current_model_index' = a.index
        /\ IF u.done
           THEN /\ status' = "returned"
                /\ result' = u.plans
                /\ stats' = CountPlans(a.stats, u.plans)
           ELSE /\ status' = status
                /\ result' = result
                /\ stats' = a.stats
        /\ trace' = [tr EXCEPT !.n_chunk_sleeps = @ + u.slept, !.ret = trade_plans]

\* analyze_batch without its first two lines: an empty list is analyzed
\* like any other
AnalyzeBatchNoEmptyCheck(flagged_tokens, mode) ==
    /\ status # "busy"
    /\ flagged_in' = flagged_tokens
    /\ env' = mode
    /\ trace' = FreshTrace(trace.last_model)
    /\ UNCHANGED <<mock_mode, current_model_index, faults, sizer, router, engine, limiter, stats>>
    /\ status' = "busy"
    /\ result' = <<>>
    /\ stack' = <<GabFrame(flagged_tokens)>>

\* analyze_batch(flagged_tokens), up to the call of _gemini_analyze_batch
AnalyzeBatch(flagged_tokens, mode) ==
    /\ status # "busy"
    /\ flagged_in' = flagged_tokens
    /\ env' = mode
    /\ trace' = FreshTrace(trace.last_model)
    /\ UNCHANGED <<mock_mode, current_model_index, faults, sizer, router, engine, limiter>>
    /\ IF flagged_tokens = <<>>
       THEN /\ status' = "returned"
            /\ result' = <<>>
            /\ UNCHANGED <<stats, stack>>
       ELSE IF mock_mode
       THEN /\ status' = "returned"
            /\ result' = MockAnalyzeBatch(flagged_tokens)
            /\ stats' = CountPlans(stats, MockAnalyzeBatch(flagged_tokens))
            /\ UNCHANGED stack
       ELSE /\ status' = "busy"
            /\ result' = <<>>
            /\ stack' = <<GabFrame(flagged_tokens)>>
            /\ UNCHANGED stats

Call ==
    IF env \in FreeModes
    THEN \E b \in FreeBatches :
            /\ used + Len(b) <= (IF env = "timed" THEN MaxTimedItems ELSE MaxItems)
            /\ used' = used + Len(b)
            /\ AnalyzeBatch(b, env)
    ELSE /\ used < MaxSustainedCalls
         /\ used' = used + 1
         /\ \E b \in SustainedBatches, m \in SustainedModes : AnalyzeBatch(b, m)

\* _gemini_analyze_batch up to the attempt loop: empty list, split decision
GabEntry ==
    /\ status = "busy"
    /\ Top.fn = "gab" /\ Top.pc = "entry"
    /\ UNCHANGED <<mock_mode, flagged_in, used, env, faults, sizer, router, engine>>
    /\ IF Top.items = <<>>
       THEN Return(Pop(stack), [index |-> current_model_index, stats |-> stats], <<>>,
                   [trace EXCEPT !.ev = "empty"], limiter)
       ELSE /\ stack' = SetTop(stack, IF ShouldSplitBatch(Top.items)
                                      THEN SplitFrame(Top.items)
                                      ELSE [Top EXCEPT !.pc = "loop"])
            /\ trace' = [trace EXCEPT !.ev = "entry", !.ret = <<>>, !.delays = <<>>]
            /\ UNCHANGED <<current_model_index, stats, status, result, limiter>>

\* _analyze_with_splitting up to its loop: the chunks, the counter
SplitStart ==
    /\ status = "busy"
    /\ Top.fn = "split" /\ Top.pc = "start"
    /\ stack' = SetTop(stack, [Top EXCEPT !.pc = "chunk", !.chunks = SplitChunks(Top.items),
                                          !.idx = 1])
    /\ stats' = [stats EXCEPT !.batches_split = @ + 1]
    /\ trace' = [trace EXCEPT !.n_splits = @ + 1, !.ev = "split", !.ret = <<>>]
    /\ UNCHANGED <<mock_mode, current_model_index, status, flagged_in, result, used, env,
                   faults, sizer, router, engine, limiter>>

\* the loop of _analyze_with_splitting calls _gemini_analyze_batch(chunk)
ChunkCall ==
    /\ status = "busy"
    /\ Top.fn = "split" /\ Top.pc = "chunk"
    /\ Top.idx <= Len(Top.chunks)
    /\ stack' = Append(stack, GabFrame(Top.chunks[Top.idx]))
    /\ trace' = [trace EXCEPT !.ev = "chunk", !.ret = <<>>]
    /\ UNCHANGED <<mock_mode, current_model_index, stats, status, flagged_in, result,
                   used, env, faults, sizer, router, engine, limiter>>

\* one iteration of the attempt loop: _rate_limit, the remote call with
\* outcome o, and the handling of the outcome up to the next iteration
RemoteCall(o) ==
    LET f  == Top
        a  == [index |-> current_model_index, stats |-> stats]
        r  == Attempt(f, a, o)
        l1 == RateLimit(limiter)
        l2 == IF r.delay > 0 THEN Sleep(l1, r.delay) ELSE l1
        tr == [trace EXCEPT
                 !.n_remote = @ + 1,
                 !.first_splits = IF trace.n_remote = 0 THEN trace.n_splits ELSE @,
                 !.last_model = Min(current_model_index, Len(MODELS) - 1),
                 !.last_size = Len(f.items),
                 !.delays = IF r.delay > 0 THEN Append(@, r.delay) ELSE @,
                 !.ev = IF ~o.ok THEN FailureClass(o.e)
                        ELSE IF Len(o.analyses) # Len(f.items) THEN "MISMATCH" ELSE "SUCCESS",
                 !.fb = r.fb,
                 !.bad = IF o.ok THEN {k \in 1..Len(o.analyses) : ~o.analyses[k].ok}
                         ELSE {},
                 !.ret = <<>>]
    IN  /\ UNCHANGED <<mock_mode, flagged_in, used, env, sizer, router, engine>>
        /\ faults' = IF o.ok THEN faults ELSE faults + 1
        /\ CASE r.act = "return" -> Return(Pop(stack), r.a, r.plans, tr, l2)
             [] r.act = "raise" ->
                  \* no caller up to analyze_batch catches: the call ends
                  /\ stack' = <<>>
                  /\ status' = "raised"
                  /\ current_model_index' = r.a.index
                  /\ stats' = r.a.stats
                  /\ trace' = tr
                  /\ limiter' = Timed(l2)
                  /\ UNCHANGED result
             [] r.act = "split" ->
                  /\ stack' = SetTop(stack, SplitFrame(f.items))
                  /\ current_model_index' = r.a.index
                  /\ stats' = r.a.stats
                  /\ trace' = tr
                  /\ limiter' = Timed(l2)
                  /\ UNCHANGED <<status, result>>
             [] r.act = "continue" ->
                  IF f.retry_attempt + 1 < Attempts
                  THEN /\ stack' = SetTop(stack, [f EXCEPT !.retry_attempt = @ + 1])
                       /\ current_model_index' = r.a.index
                       /\ stats' = r.a.stats
                       /\ trace' = tr
                       /\ limiter' = Timed(l2)
                       /\ UNCHANGED <<status, result>>
                  ELSE \* the loop is over: the return after the loop
                       Return(Pop(stack), r.a, MockAnalyzeBatch(f.items), tr, l2)

Remote ==
    /\ status = "busy"
    /\ Top.fn = "gab" /\ Top.pc = "loop"
    /\ \E o \in Outcomes(Len(Top.items), env) :
          /\ (env \in FreeModes /\ ~o.ok) => faults < MaxFaults
          /\ RemoteCall(o)

Next == Call \/ GabEntry \/ SplitStart \/ ChunkCall \/ Remote

Spec == Init /\ [][Next]_vars

SustainedSpec == InitSustained /\ [][Next]_vars

(***************************************************************************)
(* LimiterSpec: the analyzer in production mode with the clock observed.   *)
(* Time passes between any two steps of the program.                       *)
(***************************************************************************)
InitLimiter == InitAnalyzer /\ ~mock_mode /\ env = "timed" /\ Idle

\* one tick passes
Elapse ==
    /\ env = "timed"
    /\ limiter.elapsed < min_request_interval
    /\ limiter' = [limiter EXCEPT !.elapsed = @ + 1]
    /\ UNCHANGED <<mock_mode, current_model_index, stats, status, flagged_in, result,
                   stack, used, env, faults, trace, sizer, router, engine>>

LimiterNext == Call \/ GabEntry \/ SplitStart \/ ChunkCall \/ Remote \/ Elapse

LimiterSpec == InitLimiter /\ [][LimiterNext]_vars

(***************************************************************************)
(* SizerSpec: _should_split_batch and the split plan of                     *)
(* _analyze_with_splitting applied to lists of 0..MaxSizerLen flagged      *)
(* tokens; the first SAMPLE_SIZE tokens have texts of one length, the      *)
(* others of one length.                                                   *)
(***************************************************************************)
TextLengths == {ShortText, LongText}

SizerBatches ==
    {[i \in 1..n |-> Flagged(i, SigDump, IF i <= SAMPLE_SIZE THEN h ELSE t)]
     : n \in 0..MaxSizerLen, h \in TextLengths, t \in TextLengths}

InitSizer ==
    /\ InitAnalyzer
    /\ mock_mode = FALSE
    /\ env = "free"
    /\ router = IdleRouter /\ engine = IdleEngine
    /\ \E b \in SizerBatches : sizer = [IdleSizer EXCEPT !.phase = "new", !.items = b]

analyzer_vars == <<mock_mode, current_model_index, stats, status, flagged_in, result,
                   stack, used, env, faults, trace, limiter>>

\* self._should_split_batch(flagged_tokens)
DecideSplit ==
    /\ sizer.phase = "new"
    /\ sizer' = [sizer EXCEPT !.phase = "decided", !.split = ShouldSplitBatch(sizer.items)]
    /\ UNCHANGED <<analyzer_vars, router, engine>>

\* chunk_size and chunks of _analyze_with_splitting(flagged_tokens)
PlanSplit ==
    /\ sizer.phase = "decided"
    /\ sizer' = [sizer EXCEPT !.phase = "planned", !.chunks = SplitChunks(sizer.items)]
    /\ UNCHANGED <<analyzer_vars, router, engine>>

SizerNext == DecideSplit \/ PlanSplit

SizerSpec == InitSizer /\ [][SizerNext]_vars

(***************************************************************************)
(* ClassifierSpec: classify applied to a plan, with every result of the    *)
(* price collaborator.                                                     *)
(***************************************************************************)
ClassifierSymbols ==
    {"WETH", "UNI", "weth", "PEPE", "BabyDoge", "AAVE", "uniBOT", "SHIBUNI", "XYZ"}

ClassifierAddresses ==
    {"", BLUE_CHIP_TOKENS["WETH"], "0xF97F4DF75117A78C1A5A0DBB814AF92458539FB4", PEPE_ADDRESS}

ClassifierChains == {"bsc", "BSC", "base", "arbitrum", "solana"}

\* change_24h on both sides of every threshold of _detect_market_phase
Changes == {-85, -61, -60, -59, -21, -20, 0, 20, 21}

\* current of the mock price data, and another price
Prices == {12, 500}

PriceResults ==
    {NoPriceData} \cup {PriceData(c, ch, v) : c \in Prices, ch \in Changes, v \in BOOLEAN}

InitClassifier ==
    /\ InitAnalyzer /\ mock_mode /\ env = "free"
    /\ sizer = IdleSizer /\ engine = IdleEngine
    /\ \E sy \in ClassifierSymbols, ad \in ClassifierAddresses, ch \in ClassifierChains,
          pd \in PriceResults :
          router = [IdleRouter EXCEPT !.phase = "new", !.price_data = pd,
                      !.trade_plan = [token_symbol |-> sy, token_address |-> ad, chain |-> ch]]

\* self.signal_classifier.classify(trade_plan)
ClassifyPlan ==
    /\ router.phase = "new"
    /\ LET r == Classify(router.trade_plan, router.price_data)
       IN  router' = [router EXCEPT !.phase = "done", !.classification = r.classification,
                                    !.price_reads = r.price_reads]
    /\ UNCHANGED <<analyzer_vars, sizer, engine>>

ClassifierNext == ClassifyPlan

ClassifierSpec == InitClassifier /\ [][ClassifierNext]_vars

(***************************************************************************)
(* PipelineSpec: process_tier2_batch on an engine with the blockchain      *)
(* integration enabled or not, for every result of analyze_batch of at     *)
(* most MaxPlans plans; classification and execution of any plan may fail. *)
(***************************************************************************)
\* a plan as the analyzer returns it, by the fields the engine reads
EnginePlan(decision, symbol, address, chain) ==
    [decision |-> decision, token_symbol |-> symbol, token_address |-> address,
     chain |-> chain]

EnginePlans ==
    {EnginePlan("SHORT", "WETH", <<BLUE_CHIP_TOKENS["WETH"]>>, <<"arbitrum">>),
     EnginePlan("SHORT", "PEPE", <<>>, <<>>),
     EnginePlan("MONITOR", "XYZ", <<"">>, <<"bsc">>),
     EnginePlan("PASS", "AAVE", <<"">>, <<"base">>)}

EnginePlanLists == UNION {[1..n -> EnginePlans] : n \in 0..MaxPlans}

AnalyzeBatchResults ==
    {[raised |-> TRUE, plans |-> <<>>]}
    \cup {[raised |-> FALSE, plans |-> p] : p \in EnginePlanLists}

\* price data that lead to each strategy
EnginePrices == {NoPriceData, PriceData(12, -85, FALSE), PriceData(12, -30, FALSE)}

InitPipeline ==
    /\ InitAnalyzer /\ mock_mode /\ env = "free"
    /\ sizer = IdleSizer /\ router = IdleRouter
    /\ \E en \in BOOLEAN : engine = NewEngine(en)

ProcessTier2Batch ==
    /\ engine.phase = "idle"
    /\ \E flagged \in 0..MaxPlans, an \in AnalyzeBatchResults :
          /\ Len(an.plans) <= flagged
          /\ engine' = EnterTier2(engine, flagged, an)
          /\ stats' = AnalyzeBatchStats(stats, flagged, an)
    /\ UNCHANGED <<analyzer_rest, sizer, router>>

ExecuteTradePlans ==
    /\ engine.phase = "exec"
    /\ engine.idx <= Len(engine.trade_plans)
    /\ \E pd \in EnginePrices, cf \in BOOLEAN, ef \in BOOLEAN :
          engine' = ExecuteTradePlan(engine, pd, cf, ef)
    /\ UNCHANGED <<analyzer_vars, sizer, router>>

Tier2Return ==
    /\ engine.phase = "exec"
    /\ engine.idx > Len(engine.trade_plans)
    /\ engine' = LeaveTier2(engine)
    /\ UNCHANGED <<analyzer_vars, sizer, router>>

PipelineNext == ProcessTier2Batch \/ ExecuteTradePlans \/ Tier2Return

PipelineSpec == InitPipeline /\ [][PipelineNext]_vars

(***************************************************************************)
(* RulesSpec: the rule-based analyzer (mock mode) given one flagged token  *)
(* whose signal has each feature field at its threshold or just beyond it. *)
(***************************************************************************)
\* the pairs (vote_passed, recent_vote_type)
Votes == BOOLEAN \X {"treasury_raid", "inflation", "neutral"}

RuleSignal(sells, volume, liquidity, tvl, social, devs, silence, vote) ==
    [token_symbol |-> "RULE",
     insider_sells_24h |-> IF sells THEN 6 ELSE 5,
     insider_sell_volume_usd |-> IF volume THEN 500001 ELSE 500000,
     liquidity_change_24h |-> IF liquidity THEN -41 ELSE -40,
     tvl_change_24h |-> IF tvl THEN -41 ELSE -40,
     twitter_engagement_change_48h |-> IF social THEN -61 ELSE -60,
     dev_departures_30d |-> IF devs THEN 3 ELSE 2,
     influencer_silence_hours |-> IF silence THEN 73 ELSE 72,
     vote_passed |-> vote[1], recent_vote_type |-> vote[2]]

RuleSignals ==
    {RuleSignal(f[1], f[2], f[3], f[4], f[5], f[6], f[7], v) :
        f \in [1..7 -> BOOLEAN], v \in Votes}

InitRules == InitAnalyzer /\ mock_mode /\ env = "rules" /\ Idle

\* analyze_batch([flagged]) in mock mode
AnalyzeSignal ==
    /\ status = "idle"
    /\ used' = used + 1
    /\ \E s \in RuleSignals : AnalyzeBatch(<<Flagged(1, s, ShortText)>>, "rules")

RulesSpec == InitRules /\ [][AnalyzeSignal]_vars

(***************************************************************************)
(* CycleSpec: run_cycle of orchestration.py.  The engine record of         *)
(* PipelineSpec is extended with the signal queue, the locals of run_cycle *)
(* and the counters of self.stats the cycle writes; ev, queue0 and cycles0 *)
(* are history fields: the calls of the cycle in order, the queue and      *)
(* cycles_completed when the Tier-1 loop started.                          *)
(***************************************************************************)
\* a signal is named by its number in the order of ingestion
\* data_ingestion.generate_batch(size=count): count new signals, the first
\* of them with number first
GenerateBatch(first, count) == [i \in 1..count |-> first + i - 1]

\* __init__: empty flagged queue, zero counters; the queue holds the
\* signals ingest_signals put there before the cycle (strategy_loop.py
\* ingests before it calls run_cycle)
NewCycleEngine(enabled, batch_size, queued) ==
    NewEngine(enabled) @@
    [batch_size |-> batch_size, signal_queue |-> GenerateBatch(1, queued),
     total_signals_ingested |-> queued, flagged_queue |-> <<>>,
     cycles_completed |-> 0, tier1_processed |-> 0, tier1_flagged |-> 0,
     total_flagged |-> <<>>, tier1_batches |-> 0, summary |-> <<>>,
     ev |-> <<>>, queue0 |-> <<>>, cycles0 |-> 0]

\* ingest_signals: the generated signals are put at the right end
IngestSignals(e, count) ==
    LET signals == GenerateBatch(e.total_signals_ingested + 1, count)
    IN  [e EXCEPT !.signal_queue = @ \o signals,
                  !.total_signals_ingested = @ + Len(signals)]

\* what tier1_screener.screen_batch did with a batch: it raised, or it
\* returned the signals it flagged, in the order of the batch
ScreenResults(e) ==
    [raised : BOOLEAN,
     flags : SUBSET {e.signal_queue[i] : i \in 1..Len(e.signal_queue)}]

ScreenBatch(batch, screen) ==
    LET Flag(s) == s \in screen.flags
    IN  SelectSeq(batch, Flag)

\* a process_tier1_batch that takes its batch from the right end of the
\* queue (pop instead of popleft)
ProcessTier1BatchFromRight(e, screen) ==
    LET len   == Len(e.signal_queue)
        n     == Min(e.batch_size, len)
        batch == [i \in 1..n |-> e.signal_queue[len + 1 - i]]
        rest  == SubSeq(e.signal_queue, 1, len - n)
        e1    == [e EXCEPT !.signal_queue = rest]
    IN  IF len = 0 THEN [engine |-> e, batch |-> <<>>, flagged |-> <<>>]
        ELSE IF screen.raised
        THEN [engine |-> [e1 EXCEPT !.stats.errors = @ + 1],
              batch |-> batch, flagged |-> <<>>]
        ELSE LET flagged == ScreenBatch(batch, screen)
             IN  [engine |-> [e1 EXCEPT !.flagged_queue = @ \o flagged,
                                        !.tier1_processed = @ + Len(batch),
                                        !.tier1_flagged = @ + Len(flagged)],
                  batch |-> batch, flagged |-> flagged]

\* a process_tier1_batch that counts the batch as processed before it
\* screens it
ProcessTier1BatchCountsFailed(e, screen) ==
    LET len   == Len(e.signal_queue)
        n     == Min(e.batch_size, len)
        batch == SubSeq(e.signal_queue, 1, n)
        rest  == SubSeq(e.signal_queue, n + 1, len)
        e1    == [e EXCEPT !.signal_queue = rest,
                           !.tier1_processed = @ + Len(batch)]
    IN  IF len = 0 THEN [engine |-> e, batch |-> <<>>, flagged |-> <<>>]
        ELSE IF screen.raised
        THEN [engine |-> [e1 EXCEPT !.stats.errors = @ + 1],
              batch |-> batch, flagged |-> <<>>]
        ELSE LET flagged == ScreenBatch(batch, screen)
             IN  [engine |-> [e1 EXCEPT !.flagged_queue = @ \o flagged,
                                        !.tier1_flagged = @ + Len(flagged)],
                  batch |-> batch, flagged |-> flagged]

\* process_tier1_batch: min(batch_size, len(signal_queue)) signals leave
\* the queue at its left end; the screener's flagged tokens are queued,
\* counted and returned, its exception is recorded and [] returned
ProcessTier1Batch(e, screen) ==
    LET len   == Len(e.signal_queue)
        n     == Min(e.batch_size, len)
        batch == SubSeq(e.signal_queue, 1, n)
        rest  == SubSeq(e.signal_queue, n + 1, len)
        e1    == [e EXCEPT !.signal_queue = rest]
    IN  IF len = 0 THEN [engine |-> e, batch |-> <<>>, flagged |-> <<>>]
        ELSE IF screen.raised
        THEN [engine |-> [e1 EXCEPT !.stats.errors = @ + 1],
              batch |-> batch, flagged |-> <<>>]
        ELSE LET flagged == ScreenBatch(batch, screen)
             IN  [engine |-> [e1 EXCEPT !.flagged_queue = @ \o flagged,
                                        !.tier1_processed = @ + Len(batch),
                                        !.tier1_flagged = @ + Len(flagged)],
                  batch |-> batch, flagged |-> flagged]

\* what analyze_batch did with the flagged tokens of a cycle: it raised, or
\* it returned one plan for every token: a short of WETH for the first
\* signal of the engine's life, MONITOR for the second, a decision the
\* remote model made up for the third (the parser copies the decision as
\* it is), a pass for any other
CyclePlan(s) ==
    IF s = 1 THEN EnginePlan("SHORT", "WETH", <<BLUE_CHIP_TOKENS["WETH"]>>, <<"arbitrum">>)
    ELSE IF s = 2 THEN EnginePlan("MONITOR", "XYZ", <<"">>, <<"bsc">>)
    ELSE IF s = 3 THEN EnginePlan("HOLD", "XYZ", <<"">>, <<"bsc">>)
    ELSE EnginePlan("PASS", "AAVE", <<"">>, <<"base">>)

CycleAnalyses(flagged) ==
    {[raised |-> TRUE, plans |-> <<>>],
     [raised |-> FALSE, plans |-> [i \in 1..Len(flagged) |-> CyclePlan(flagged[i])]]}

InitCycle ==
    /\ InitAnalyzer /\ mock_mode /\ env = "free"
    /\ sizer = IdleSizer /\ router = IdleRouter
    /\ \E en \in BOOLEAN, bs \in 1..MaxTier1Batch, q \in 0..MaxIngest :
          engine = NewCycleEngine(en, bs, q)

\* run_cycle up to the Tier-1 loop: step 1 and the two locals
RunCycle ==
    /\ engine.phase = "idle"
    /\ engine.cycles_completed < MaxCycles
    /\ \E signals_per_cycle \in 0..MaxIngest :
          /\ engine.total_signals_ingested + signals_per_cycle <= MaxSignals
          /\ LET e == IngestSignals(engine, signals_per_cycle)
             IN  engine' = [e EXCEPT !.phase = "tier1", !.tier1_batches = 0,
                                     !.total_flagged = <<>>, !.summary = <<>>,
                                     !.ev = <<>>, !.queue0 = e.signal_queue,
                                     !.cycles0 = e.cycles_completed]
    /\ UNCHANGED <<analyzer_vars, sizer, router>>

\* one iteration of "while self.signal_queue"
Tier1Loop ==
    /\ engine.phase = "tier1"
    /\ engine.signal_queue # <<>>
    /\ \E screen \in ScreenResults(engine) :
          LET r == ProcessTier1Batch(engine, screen)
          IN  engine' = [r.engine EXCEPT
                           !.total_flagged = @ \o r.flagged,
                           !.tier1_batches = @ + 1,
                           !.ev = Append(@, [op |-> "tier1", batch |-> r.batch,
                                             out |-> r.flagged,
                                             raised |-> screen.raised])]
    /\ UNCHANGED <<analyzer_vars, sizer, router>>

\* step 3 of run_cycle: process_tier2_batch(total_flagged) when anything
\* was flagged, no call otherwise
ProcessFlagged ==
    /\ engine.phase = "tier1"
    /\ engine.signal_queue = <<>>
    /\ IF engine.total_flagged = <<>>
       THEN /\ engine' = [engine EXCEPT !.phase = "returned", !.returned = <<>>,
                                        !.trade_plans = <<>>]
            /\ stats' = stats
       ELSE \E an \in CycleAnalyses(engine.total_flagged) :
               /\ engine' = EnterTier2(
                      [engine EXCEPT !.ev = Append(@, [op |-> "tier2",
                                                       batch |-> engine.total_flagged,
                                                       out |-> <<>>])],
                      Len(engine.total_flagged), an)
               /\ stats' = AnalyzeBatchStats(stats, Len(engine.total_flagged), an)
    /\ UNCHANGED <<analyzer_rest, sizer, router>>

\* the end of run_cycle: the cycle is counted and its summary returned
CycleEnd ==
    /\ engine.phase = "returned"
    /\ engine' = [engine EXCEPT
                    !.phase = "idle",
                    !.cycles_completed = @ + 1,
                    !.summary = <<[cycle_number |-> engine.cycles_completed + 1,
                                   tier1_batches |-> engine.tier1_batches,
                                   tier1_flagged |-> Len(engine.total_flagged)]>>]
    /\ UNCHANGED <<analyzer_vars, sizer, router>>

CycleStep == Tier1Loop \/ ProcessFlagged \/ ExecuteTradePlans \/ Tier2Return \/ CycleEnd

CycleNext == RunCycle \/ CycleStep

\* run_cycle is one synchronous call: once started it runs to its end
CycleSpec == InitCycle /\ [][CycleNext]_vars /\ WF_vars(CycleStep)

(***************************************************************************)
(* GateSpec: one SHORT plan on its way from _execute_trade_plans through   *)
(* the execution method of its strategy into                               *)
(* BlockchainIntegration.execute_short (src/agent/blockchain_integration   *)
(* .py).  The engine is a record: the thresholds of self.blockchain, the   *)
(* plan, and after the step the strategy, the confidence handed to         *)
(* execute_short and the requests posted to the execution backend.         *)
(***************************************************************************)
\* BlockchainIntegration.__init__: the default thresholds
MIN_CONFIDENCE_FOR_PUBLISH == 60

MIN_CONFIDENCE_FOR_SHORT == 75

\* a correlation discount of 20 percent
AdjustedConfidenceFifth(confidence) == (8 * confidence) \div 10

\* int(plan.confidence * 0.7) in double arithmetic, for the confidences up
\* to MaxPlanConfidence + 1: the floor of seven tenths, but 90 * 0.7 is
\* 62.99999999999999
AdjustedConfidence(confidence) ==
    IF confidence = 90 THEN 62 ELSE (7 * confidence) \div 10

\* the confidence the execution method of a strategy hands to execute_short
ShortConfidence(plan, classification) ==
    IF classification.strategy = "CORRELATED_SHORT"
    THEN AdjustedConfidence(plan.confidence)
    ELSE plan.confidence

\* _lookup_token_address(symbol, 'arbitrum') for the index tokens the
\* execution methods can name
LookupTokenAddress(symbol) ==
    IF symbol \in DOMAIN BLUE_CHIP_TOKENS THEN <<BLUE_CHIP_TOKENS[symbol]>> ELSE <<>>

\* execute_short: the requests it posts, none when the integration is
\* disabled, the confidence is below the threshold or the token unknown
ExecuteShort(b, index_token, confidence) ==
    IF ~b.enabled THEN <<>>
    ELSE IF confidence < b.min_confidence_short THEN <<>>
    ELSE IF LookupTokenAddress(index_token) = <<>> THEN <<>>
    ELSE <<[indexToken |-> LookupTokenAddress(index_token)[1]]>>

GatePlans ==
    {EnginePlan("SHORT", s.symbol, s.address, s.chain) @@ [confidence |-> c] :
        s \in {[symbol |-> "WETH", address |-> <<BLUE_CHIP_TOKENS["WETH"]>>,
                chain |-> <<"arbitrum">>],
               [symbol |-> "PEPE", address |-> <<>>, chain |-> <<"bsc">>]},
        c \in 0..MaxPlanConfidence}

\* an enabled integration with the default threshold for shorts or with one
\* lowered to the threshold for publishing
InitGate ==
    /\ InitAnalyzer /\ mock_mode /\ env = "free"
    /\ sizer = IdleSizer /\ router = IdleRouter
    /\ \E p \in GatePlans,
          m \in {MIN_CONFIDENCE_FOR_SHORT, MIN_CONFIDENCE_FOR_PUBLISH} :
          engine = [phase |-> "plan", enabled |-> TRUE, min_confidence_short |-> m,
                    plan |-> p, strategy |-> "NONE", call |-> <<>>,
                    confidence |-> 0, requests |-> <<>>]

\* one iteration of the loop of _execute_trade_plans for the plan, down to
\* the request execute_short posts
ExecuteShortPlan ==
    /\ engine.phase = "plan"
    /\ \E pd \in EnginePrices :
          LET c    == Classify(ClassifierPlan(engine.plan), pd).classification
              call == RouteCall(engine.plan, c)
              conf == ShortConfidence(engine.plan, c)
          IN  engine' = [engine EXCEPT
                           !.phase = "done",
                           !.strategy = c.strategy,
                           !.call = call,
                           !.confidence = conf,
                           !.requests =
                               IF call # <<>> /\ call[1].fn = "execute_short"
                               THEN ExecuteShort(engine, call[1].target, conf)
                               ELSE <<>>]
    /\ UNCHANGED <<analyzer_vars, sizer, router>>

GateSpec == InitGate /\ [][ExecuteShortPlan]_vars

(***************************************************************************)
(* The API server (api_server.py): the flag is_running, the background     *)
(* tasks /agent/start has added and the engine's cycle counter.  The        *)
(* handlers and run_cycle are synchronous between awaits, so a loop gives   *)
(* up control only in its asyncio.sleep(10): a loop is "scheduled" (added,  *)
(* not begun), "sleeping" (begun, in its sleep) or "ended".                 *)
(***************************************************************************)
\* the module's globals after startup()
InitServer ==
    /\ InitAnalyzer /\ mock_mode /\ env = "free"
    /\ sizer = IdleSizer /\ router = IdleRouter
    /\ engine = [phase |-> "server", is_running |-> FALSE, loops |-> <<>>,
                 cycles_completed |-> 0, response |-> 0]

\* POST /agent/start
StartAgent ==
    /\ engine.phase = "server"
    /\ Len(engine.loops) < MaxLoops
    /\ engine' = IF engine.is_running
                  THEN [engine EXCEPT !.response = 400]
                  ELSE [engine EXCEPT !.is_running = TRUE,
                                      !.loops = Append(@, "scheduled"),
                                      !.response = 200]
    /\ UNCHANGED <<analyzer_vars, sizer, router>>

\* POST /agent/stop
StopAgent ==
    /\ engine.phase = "server"
    /\ engine' = IF ~engine.is_running
                  THEN [engine EXCEPT !.response = 400]
                  ELSE [engine EXCEPT !.is_running = FALSE, !.response = 200]
    /\ UNCHANGED <<analyzer_vars, sizer, router>>

\* POST /agent/cycle
RunSingleCycle ==
    /\ engine.phase = "server"
    /\ engine.cycles_completed < MaxServerCycles
    /\ \E raised \in BOOLEAN :
          engine' = IF raised
                    THEN [engine EXCEPT !.response = 500]
                    ELSE [engine EXCEPT !.cycles_completed = @ + 1,
                                        !.response = 200]
    /\ UNCHANGED <<analyzer_vars, sizer, router>>

\* run_screening_cycle of task t, from its beginning or from the end of its
\* sleep to its next sleep or its end: the test of `while is_running`, the
\* call of run_cycle and the handler of an exception it raises
RunScreeningCycle(t) ==
    /\ engine.phase = "server"
    /\ engine.loops[t] \in {"scheduled", "sleeping"}
    /\ IF ~engine.is_running
       THEN engine' = [engine EXCEPT !.loops[t] = "ended"]
       ELSE /\ engine.cycles_completed < MaxServerCycles
            /\ \E raised \in BOOLEAN :
                  engine' = IF raised
                            THEN [engine EXCEPT !.is_running = FALSE,
                                                !.loops[t] = "ended"]
                            ELSE [engine EXCEPT !.cycles_completed = @ + 1,
                                                !.loops[t] = "sleeping"]
    /\ UNCHANGED <<analyzer_vars, sizer, router>>

BackgroundTask == \E t \in 1..Len(engine.loops) : RunScreeningCycle(t)

ServerNext == StartAgent \/ StopAgent \/ RunSingleCycle \/ BackgroundTask

ServerSpec == InitServer /\ [][ServerNext]_vars

(***************************************************************************)
(* Properties.                                                             *)
(***************************************************************************)
Returned == status = "returned"

Production == ~mock_mode

\* C1 (no loss): the list analyze_batch returns has exactly len(items)
\* plans, one for every flagged token of the input, none twice.
C1_NoLoss ==
    Returned =>
        /\ Len(result) = Len(flagged_in)
        /\ \A i \in 1..Len(flagged_in) :
              Cardinality({j \in 1..Len(result) : result[j].item = flagged_in[i].id}) = 1

\* C2 (order preservation): the plan at position i of the returned list was
\* produced for input token i: it carries its urgency score and is either
\* the local fallback of token i or built from the remote decision at the
\* position token i had in its request.
C2_OrderPreserved ==
    Returned =>
        \A i \in 1..Len(result) :
            /\ i <= Len(flagged_in)
            /\ result[i].item = flagged_in[i].id
            /\ result[i].urgency_score = flagged_in[i].urgency_score
            /\ result[i].src = "local" => result[i] = MockPlan(flagged_in[i])
            /\ result[i].src = "remote" => result[i].tag = result[i].pos

\* the most remote calls one _gemini_analyze_batch on n tokens can make:
\* its own attempts, and those of the chunks it may be split into
RECURSIVE MaxRemoteCalls(_)
MaxRemoteCalls(n) ==
    IF n = 0 THEN 0
    ELSE IF n = 1 THEN Attempts
    ELSE LET cs == ChunkSize(n)
         IN  Attempts + (n \div cs) * MaxRemoteCalls(cs)
                      + (IF n % cs > 0 THEN MaxRemoteCalls(n % cs) ELSE 0)

\* the work of one analyze_batch call is bounded by a function of the
\* length of its input, and while the call runs a next step exists
BoundedWork ==
    /\ trace.n_remote <= MaxRemoteCalls(Len(flagged_in))
    /\ trace.n_splits + Len(stack) <= 2 * Len(flagged_in) + 1
    /\ Len(trace.delays) <= trace.n_remote
    /\ status = "busy" => ENABLED (GabEntry \/ SplitStart \/ ChunkCall \/ Remote)

\* C3 (termination): a call of analyze_batch makes finitely many remote
\* calls, delays and splits, whatever fails, and ends in SUCCESS or in the
\* local fallback: it returns plans built from a remote answer or by the
\* rule-based analyzer.
C3_TerminatesInResult ==
    /\ BoundedWork
    /\ status \in {"idle", "busy", "returned"}
    /\ Returned => \A i \in 1..Len(result) : result[i].src \in {"remote", "local"}

\* C4 (no failure escapes): whatever failure the remote call raises, at any
\* attempt and in any chunk, analyze_batch never ends in an error.
C4_NoFailureEscapes == status # "raised"

\* C5 (model monotonicity): current_model_index never decreases and is
\* never reset, across attempts, chunks and calls; _fallback_to_next_model
\* adds exactly one and returns true below the last index, and at the last
\* index returns false and changes nothing; the models used by successive
\* remote calls do not decrease.
C5_ModelMonotonic ==
    [][/\ current_model_index' >= current_model_index
       /\ trace'.last_model >= trace.last_model
       /\ IF trace'.n_remote = trace.n_remote + 1 /\ trace'.fb.called
          THEN /\ trace'.fb.before = current_model_index
               /\ trace'.fb.after = current_model_index'
               /\ IF trace'.fb.before < Len(MODELS) - 1
                  THEN trace'.fb.advanced /\ trace'.fb.after = trace'.fb.before + 1
                  ELSE ~trace'.fb.advanced /\ trace'.fb.after = trace'.fb.before
          ELSE current_model_index' = current_model_index]_vars

\* a fallback was asked for at the last model, in a later call than the
\* first, after the chain had advanced through all its models
C5_Witness ==
    /\ trace.fb.called /\ ~trace.fb.advanced
    /\ trace.fb.before = Len(MODELS) - 1
    /\ stats.model_fallbacks = Len(MODELS) - 1
    /\ used > Len(flagged_in)

\* C6 (response mismatch): when the remote call succeeds with a decision
\* list of another length than the batch, every token of that batch is
\* served by the local fallback, no plan of it is built from a remote
\* decision, and no retry, model advance or split follows from it.
C6_MismatchFallsBack ==
    [][(trace'.n_remote = trace.n_remote + 1 /\ trace'.ev = "MISMATCH") =>
          /\ trace'.ret = MockAnalyzeBatch(Top.items)
          /\ \A k \in 1..Len(trace'.ret) : trace'.ret[k].src = "local"
          /\ Len(trace'.ret) = Len(Top.items)
          /\ current_model_index' = current_model_index
          /\ stats'.model_fallbacks = stats.model_fallbacks
          /\ stats'.batches_split = stats.batches_split
          /\ trace'.delays = trace.delays
          /\ stack' = <<>> \/ stack'[Len(stack')].fn = "split"
          /\ status' = "returned" =>
                SubSeq(result', Len(result') - Len(trace'.ret) + 1, Len(result')) = trace'.ret]_vars

\* two decisions came back for a batch of three tokens
C6_Witness ==
    /\ trace.ev = "MISMATCH"
    /\ trace.last_size = 3
    /\ Len(trace.ret) = 3
    /\ Returned /\ result = MockAnalyzeBatch(flagged_in)

\* C7 (sustained rate limiting of one token): on a fresh analyzer, a
\* one-token batch whose every remote call is RATE_LIMITED advances the
\* chain 3 times, then consumes the 3 retry delays, and only then gets its
\* plan from the local fallback.
C7_SustainedRateLimit ==
    (Returned /\ Production /\ env = "RL" /\ used = 1 /\ Len(flagged_in) = 1) =>
        /\ stats.model_fallbacks = Len(MODELS) - 1
        /\ trace.delays = RETRY_DELAYS
        /\ result = <<MockPlan(flagged_in[1])>>

\* C8 (split decision): _should_split_batch is true iff the batch is longer
\* than MAX_BATCH_SIZE or its estimated token count exceeds
\* MAX_TOKENS_PER_BATCH.
C8_SplitIff ==
    sizer.phase \in {"decided", "planned"} =>
        (sizer.split <=>
            \/ Len(sizer.items) > MAX_BATCH_SIZE
            \/ EstimateTimes5(sizer.items) > MAX_TOKENS_PER_BATCH * SAMPLE_SIZE)

\* C9 (oversized batches): for a batch longer than MAX_BATCH_SIZE exactly
\* one split happens before the first remote call, and no remote request
\* carries more than MAX_BATCH_SIZE tokens.
C9_SplitBeforeRemote ==
    (Production /\ Len(flagged_in) > MAX_BATCH_SIZE /\ trace.n_remote >= 1) =>
        /\ trace.first_splits = 1
        /\ trace.last_size <= MAX_BATCH_SIZE

RECURSIVE Concat(_)
Concat(ss) == IF ss = <<>> THEN <<>> ELSE Head(ss) \o Concat(Tail(ss))

\* C10 (split plan): the chunks of a non-empty list of n tokens are
\* non-empty contiguous slices of min(MAX_BATCH_SIZE, ceil(n/3)) tokens (the
\* last may be shorter) whose concatenation in chunk order is the list;
\* there are at most n chunks, each of at most MAX_BATCH_SIZE tokens.
C10_SplitPlan ==
    (sizer.phase = "planned" /\ sizer.items # <<>>) =>
        LET n  == Len(sizer.items)
            cs == Min(MAX_BATCH_SIZE, CeilDiv(n, 3))
        IN  /\ Concat(sizer.chunks) = sizer.items
            /\ Len(sizer.chunks) >= 1 /\ Len(sizer.chunks) <= n
            /\ \A k \in 1..Len(sizer.chunks) :
                  /\ Len(sizer.chunks[k]) >= 1
                  /\ Len(sizer.chunks[k]) <= MAX_BATCH_SIZE
                  /\ k < Len(sizer.chunks) => Len(sizer.chunks[k]) = cs
                  /\ Len(sizer.chunks[k]) <= cs

\* a list longer than 3 * MAX_BATCH_SIZE was planned: four chunks
C10_Witness ==
    /\ sizer.phase = "planned"
    /\ Len(sizer.items) > 3 * MAX_BATCH_SIZE
    /\ Len(sizer.chunks) = 4

\* the step issues a remote call (one iteration of the attempt loop)
RemoteStep == trace'.n_remote = trace.n_remote + 1

\* C11 (empty input): analyze_batch([]) returns the empty list, issues no
\* remote call, does not wait in the rate limiter and leaves every
\* statistics counter, current_model_index and last_request_time as they
\* were.
C11_EmptyInput ==
    [][(Call /\ flagged_in' = <<>>) =>
          /\ status' = "returned" /\ result' = <<>>
          /\ stats' = stats
          /\ current_model_index' = current_model_index
          /\ limiter' = limiter
          /\ trace'.n_remote = 0
          /\ stack' = stack /\ faults' = faults]_vars

\* the empty list was analyzed by an analyzer that had made remote calls
C11_Witness ==
    /\ Returned /\ flagged_in = <<>> /\ result = <<>>
    /\ trace.ev = "call"
    /\ limiter.n >= 1 /\ stats.batch_requests >= 1 /\ current_model_index >= 1

\* C12 (attempt budget): the attempt loop of one unsplit batch issues at
\* most len(RETRY_DELAYS)+1 remote calls, whatever the failures are: every
\* activation starts at attempt 0, every remote call is one attempt, and a
\* call that leaves the activation in its loop moves it to the next attempt.
C12_AttemptBudget ==
    [][/\ \A i \in 1..Len(stack') :
             (stack'[i].fn = "gab" /\ stack'[i].pc = "entry") => stack'[i].retry_attempt = 0
       /\ RemoteStep =>
             /\ Top.retry_attempt + 1 <= Len(RETRY_DELAYS) + 1
             /\ (Len(stack') = Len(stack) /\ stack'[Len(stack')].fn = "gab") =>
                   /\ stack'[Len(stack')].items = Top.items
                   /\ stack'[Len(stack')].retry_attempt = Top.retry_attempt + 1]_vars

\* one unsplit token took all the attempts, with failures of several classes
C12_Witness ==
    /\ Returned /\ Len(flagged_in) = 1
    /\ trace.n_remote = Len(RETRY_DELAYS) + 1 /\ trace.n_splits = 0
    /\ stats.rate_limit_hits >= 1 /\ stats.api_errors >= 1 /\ stats.model_fallbacks = 1
    /\ used = 1

\* C13 (rate limiting): every remote call follows a _rate_limit of its own,
\* and _rate_limit runs nowhere else; the first one of an analyzer does not
\* wait; every later one returns at least min_request_interval after the
\* one before it returned, so consecutive remote calls are that far apart,
\* also across chunks, retries, model advances and calls.
C13_RateLimited ==
    [][/\ RemoteStep =>
             /\ limiter'.n = Min(limiter.n + 1, 2)
             /\ limiter.n = 0 => limiter'.waited = 0
             /\ limiter.n > 0 => limiter'.gap >= min_request_interval
             /\ limiter'.waited + limiter.elapsed >= min_request_interval
       /\ ~RemoteStep =>
             /\ limiter'.n = limiter.n
             /\ limiter'.waited = limiter.waited
             /\ limiter'.gap = limiter.gap]_vars

\* a later _rate_limit found one tick elapsed and slept the rest, after a
\* model advance
C13_Witness ==
    /\ limiter.n = 2
    /\ limiter.waited = min_request_interval - 1
    /\ stats.model_fallbacks >= 1
    /\ trace.n_remote >= 2

\* the blue-chip addresses, as written in BLUE_CHIP_TOKENS
BlueChipAddresses == {BLUE_CHIP_TOKENS[t] : t \in DOMAIN BLUE_CHIP_TOKENS}

\* the plan of the router is a blue chip by its symbol or by its address
RouterBlueChip ==
    \/ router.trade_plan.token_symbol \in {"WETH", "WBTC", "LINK", "UNI"}
    \/ router.trade_plan.token_address \in BlueChipAddresses

\* the plan of the router is no blue chip: neither its symbol nor its
\* address, in any letter case, is in BLUE_CHIP_TOKENS
RouterNotBlueChip ==
    /\ router.trade_plan.token_symbol \notin {"WETH", "WBTC", "LINK", "UNI"}
    /\ Lower(router.trade_plan.token_address) \notin {Lower(a) : a \in BlueChipAddresses}

\* C14 (blue-chip routing): a plan whose symbol is in the blue-chip set or
\* whose address is a blue-chip address classifies to GMX_SHORT, BLUE_CHIP,
\* multiplier 1.0, with price data present of any value or missing; the
\* price collaborator is not even asked.
C14_BlueChipRouting ==
    (router.phase = "done" /\ RouterBlueChip) =>
        /\ router.classification.strategy = "GMX_SHORT"
        /\ router.classification.token_type = "BLUE_CHIP"
        /\ router.classification.confidence_multiplier = 10
        /\ router.classification = Classification("GMX_SHORT", "BLUE_CHIP")
        /\ router.price_reads = 0

\* a token with a memecoin symbol and the WETH address, with price data of
\* a rugged token
C14_Witness ==
    /\ router.phase = "done"
    /\ router.trade_plan.token_symbol = "PEPE"
    /\ router.trade_plan.token_address = BLUE_CHIP_TOKENS["WETH"]
    /\ router.price_data.present /\ router.price_data.change_24h = -85
    /\ router.classification.strategy = "GMX_SHORT"

\* C15 (phase to strategy): for a token that is no blue chip and has price
\* data, POST_RUG (for instance change_24h = -85) gives DIP_BUY with
\* bounce_target = current * 1.4, the current price and the drop recorded,
\* multiplier 0.8; PRE_RUG gives CORRELATED_SHORT against WBTC for bsc and
\* WETH for every other chain, mapped or not, multiplier 0.7; UNCLEAR gives
\* SKIP.
C15_PhaseToStrategy ==
    (router.phase = "done" /\ RouterNotBlueChip /\ router.price_data.present) =>
        LET c     == router.classification
            pd    == router.price_data
            phase == DetectMarketPhase(pd)
        IN  /\ pd.change_24h = -85 => phase = "POST_RUG"
            /\ phase = "POST_RUG" =>
                  /\ c.strategy = "DIP_BUY" /\ c.market_phase = <<"POST_RUG">>
                  /\ c.bounce_target = <<pd.current * 14>>
                  /\ c.current_price = <<pd.current>>
                  /\ c.price_drop_24h = <<pd.change_24h>>
                  /\ c.confidence_multiplier = 8
            /\ phase = "PRE_RUG" =>
                  /\ c.strategy = "CORRELATED_SHORT" /\ c.market_phase = <<"PRE_RUG">>
                  /\ c.correlated_asset =
                        <<IF router.trade_plan.chain \in {"bsc", "BSC"} THEN "WBTC" ELSE "WETH">>
                  /\ c.confidence_multiplier = 7
            /\ phase = "UNCLEAR" => c.strategy = "SKIP"
            /\ phase \in {"POST_RUG", "PRE_RUG", "UNCLEAR"}

\* a memecoin that fell by 85%: DIP_BUY with the target 1.4 times the price
C15_Witness ==
    /\ router.phase = "done"
    /\ router.trade_plan.token_symbol = "PEPE"
    /\ router.trade_plan.token_address = PEPE_ADDRESS
    /\ router.price_data = PriceData(12, -85, FALSE)
    /\ router.classification.strategy = "DIP_BUY"
    /\ router.classification.bounce_target = <<168>>

Core(p) ==
    [token_symbol |-> p.token_symbol, decision |-> p.decision, confidence |-> p.confidence,
     position_size_percent |-> p.position_size_percent, leverage |-> p.leverage]

\* the positions of result that hold plans of the rule-based analyzer
LocalPositions == {i \in 1..Len(result) : result[i].src = "local"}

ShortPositions == {i \in 1..Len(engine.trade_plans) : engine.trade_plans[i].decision = "SHORT"}

\* C18 (execution errors are not fatal): when process_tier2_batch returns
\* after the analyzer gave it plans, all of them are stored and returned,
\* and with the blockchain integration enabled every SHORT plan was met by
\* the loop once, in order, also after the classification or the execution
\* of an earlier plan failed.
C18_ExecutionErrorsAbsorbed ==
    (engine.phase = "returned" /\ ~engine.raised) =>
        /\ engine.returned = engine.trade_plans
        /\ engine.stored = engine.trade_plans
        /\ engine.stats.errors = 0
        /\ engine.stats.tier2_analyzed = Len(engine.trade_plans)
        /\ engine.enabled =>
              /\ Len(engine.log) = Cardinality(ShortPositions)
              /\ {engine.log[k].i : k \in 1..Len(engine.log)} = ShortPositions
              /\ \A k \in 1..Len(engine.log) - 1 : engine.log[k].i < engine.log[k + 1].i

\* the classification of the first plan failed, the execution of the
\* second failed and the third was executed
C18_Witness ==
    /\ engine.phase = "returned" /\ engine.enabled
    /\ Len(engine.log) = 3 /\ Len(engine.returned) = 3
    /\ ~engine.log[1].classified
    /\ engine.log[2].classified /\ engine.log[2].executed = "failed"
    /\ engine.log[3].executed = "ok"

\* the attempt loop of the innermost _gemini_analyze_batch goes on with the
\* same unsplit batch: the next step of the program is its next remote call
SameBatchNextCall ==
    /\ status' = "busy"
    /\ Len(stack') = Len(stack)
    /\ stack'[Len(stack')].fn = "gab"
    /\ stack'[Len(stack')].pc = "loop"
    /\ stack'[Len(stack')].items = Top.items
    /\ trace'.n_splits = trace.n_splits
    /\ stats'.batches_split = stats.batches_split

\* the batch of the innermost _gemini_analyze_batch was given to the
\* rule-based analyzer and the activation returned
LocalFallbackAtOnce ==
    /\ Len(trace'.ret) = Len(Top.items)
    /\ \A k \in 1..Len(trace'.ret) : trace'.ret[k].src = "local"
    /\ stack' = <<>> \/ stack'[Len(stack')].fn = "split"

\* C19 (NOT_FOUND handling): a remote call that fails with NOT_FOUND while
\* a next model exists advances the chain by one and is followed by the
\* next call for the same unsplit batch, with no retry delay consumed; at
\* the last model the batch goes to the local fallback at once.
C19_NotFoundHandling ==
    [][(RemoteStep /\ trace'.ev = "NOT_FOUND") =>
          /\ trace'.delays = trace.delays
          /\ IF current_model_index < Len(MODELS) - 1
             THEN /\ current_model_index' = current_model_index + 1
                  /\ SameBatchNextCall
             ELSE /\ current_model_index' = current_model_index
                  /\ LocalFallbackAtOnce]_vars

\* C20 (RATE_LIMITED precedence): a remote call that fails with
\* RATE_LIMITED first advances the chain and, if it advanced, goes on with
\* the same unsplit batch with no delay and no split; with the chain
\* exhausted a batch of more than one item is split without a retry delay,
\* and a one-item batch consumes the next retry delay and loops.
C20_RateLimitedPrecedence ==
    [][(RemoteStep /\ trace'.ev = "RATE_LIMITED") =>
          IF current_model_index < Len(MODELS) - 1
          THEN /\ current_model_index' = current_model_index + 1
               /\ trace'.delays = trace.delays
               /\ SameBatchNextCall
          ELSE /\ current_model_index' = current_model_index
               /\ IF Len(Top.items) > 1
                  THEN /\ trace'.delays = trace.delays
                       /\ stack' = SetTop(stack, SplitFrame(Top.items))
                  ELSE /\ Len(trace'.delays) = Len(trace.delays) + 1
                       /\ stack' = SetTop(stack, [Top EXCEPT !.retry_attempt = @ + 1])]_vars

\* the step returns plans from the innermost _gemini_analyze_batch (an
\* exception leaving it returns nothing)
GabReturns ==
    status = "busy" /\ Top.fn = "gab" /\ Len(stack') < Len(stack) /\ status' # "raised"

\* what reaches the activation that goes on after the step: the plans
\* collected by the _analyze_with_splitting activations that end with it,
\* outermost first, then the plans just returned
Carried ==
    Concat([j \in 1..(Len(stack) - 1 - Len(stack')) |-> stack[Len(stack') + j].all_trade_plans])
    \o trace'.ret

\* C21 (QUOTA_EXHAUSTED on more than one item): the failure sends the batch
\* to the split path with current_model_index unchanged and no retry delay
\* consumed, and the plans a split returns are its chunks' plans,
\* concatenated in chunk order.
C21_QuotaSplits ==
    [][/\ (RemoteStep /\ trace'.ev = "QUOTA_EXHAUSTED" /\ Len(Top.items) > 1) =>
             /\ current_model_index' = current_model_index
             /\ stats'.model_fallbacks = stats.model_fallbacks
             /\ trace'.delays = trace.delays
             /\ status' = "busy"
             /\ stack' = SetTop(stack, SplitFrame(Top.items))
       /\ GabReturns =>
             IF stack' = <<>>
             THEN status' = "returned" /\ result' = Carried
             ELSE /\ stack'[Len(stack')].fn = "split"
                  /\ stack'[Len(stack')].all_trade_plans =
                        stack[Len(stack')].all_trade_plans \o Carried
                  /\ stack'[Len(stack')].idx = stack[Len(stack')].idx + 1]_vars

\* the only failure of a call for three tokens was a quota failure of the
\* whole batch: it was split once, and the three chunks' plans came back in
\* order from the remote service
C21_Witness ==
    /\ Returned /\ Production /\ Len(flagged_in) = 3
    /\ faults = 1 /\ stats.rate_limit_hits = 0 /\ stats.model_fallbacks = 0
    /\ trace.n_splits = 1 /\ trace.delays = <<>>
    /\ Len(result) = 3
    /\ \A k \in 1..3 : result[k].item = k /\ result[k].src = "remote"

\* every remote call of the current analyze_batch call fails and reaches
\* the last branch of the handler: class OTHER, or QUOTA_EXHAUSTED for one
\* item
TransientOnly ==
    \/ env = "OTHER"
    \/ env = "Q" /\ Len(flagged_in) = 1

\* C22 (transient-error retry): a batch given to the attempt loop whose
\* every remote call fails with OTHER, or with QUOTA_EXHAUSTED when it has
\* one item, gets len(RETRY_DELAYS)+1 calls with RETRY_DELAYS slept in
\* order between them, no model advance and no split, and then the local
\* fallback's plans for the whole batch.
C22_TransientRetry ==
    (/\ Production /\ TransientOnly
     /\ status \in {"returned", "raised"}
     /\ flagged_in # <<>> /\ ~ShouldSplitBatch(flagged_in)) =>
        /\ status = "returned"
        /\ trace.n_remote = Len(RETRY_DELAYS) + 1
        /\ trace.delays = RETRY_DELAYS
        /\ trace.fb = NoFallback /\ current_model_index = trace.last_model
        /\ trace.n_splits = 0
        /\ result = MockAnalyzeBatch(flagged_in)

\* a quota failure at each of the four calls for one token; the token got
\* its plan from the rule-based analyzer
C22_Witness ==
    /\ Returned /\ Production /\ env = "Q" /\ Len(flagged_in) = 1
    /\ trace.n_remote = 4 /\ trace.delays = <<3, 6, 12>>
    /\ stats.api_errors >= 4
    /\ result = <<MockPlan(flagged_in[1])>>

\* C23 (market phase): for price data with 24h change c and volume-spike
\* flag s the phase is POST_RUG iff c < -60, else PRE_RUG iff (c > 20 and
\* s) or -60 < c < -20, else UNCLEAR; c = -60, c = -20, c = 20 with a
\* spike and c > 20 without one give UNCLEAR; BOUNCE is never returned.
C23_MarketPhase ==
    (router.phase = "done" /\ RouterNotBlueChip /\ router.price_data.present) =>
        LET c     == router.price_data.change_24h
            s     == router.price_data.volume_spike
            phase == router.classification.market_phase
            pre   == (c > 20 /\ s) \/ (-60 < c /\ c < -20)
        IN  /\ phase = <<"POST_RUG">> <=> c < -60
            /\ phase = <<"PRE_RUG">> <=> (~(c < -60) /\ pre)
            /\ phase = <<"UNCLEAR">> <=> (~(c < -60) /\ ~pre)
            /\ c \in {-60, -20} => phase = <<"UNCLEAR">>
            /\ (c = 20 /\ s) => phase = <<"UNCLEAR">>
            /\ (c > 20 /\ ~s) => phase = <<"UNCLEAR">>
            /\ phase \in {<<"POST_RUG">>, <<"PRE_RUG">>, <<"UNCLEAR">>}
            /\ phase # <<"BOUNCE">>

\* a token that rose by exactly 20% with a volume spike: UNCLEAR
C23_Witness ==
    /\ router.phase = "done" /\ RouterNotBlueChip
    /\ router.price_data = PriceData(12, 20, TRUE)
    /\ router.classification.market_phase = <<"UNCLEAR">>
    /\ router.classification.strategy = "SKIP"

\* the token type _classify_token gives the plan of the router
RouterTokenType ==
    ClassifyToken(router.trade_plan.token_symbol, router.trade_plan.token_address)

\* C24 (token-type precedence): the type is BLUE_CHIP for a blue-chip
\* symbol or address; otherwise MEMECOIN when the symbol contains a
\* memecoin keyword (PEPE, BabyDoge, SHIBUNI); otherwise DEFI when it
\* contains a defi keyword (AAVE, uniBOT); otherwise MEMECOIN (weth, XYZ).
\* It is never UNKNOWN, and classify never answers with the SKIP of an
\* unknown token type.
C24_TokenTypePrecedence ==
    router.phase = "done" =>
        LET sy == router.trade_plan.token_symbol
            c  == router.classification
            \* blue chip by the symbol, or by the address in any letter case
            bc == ~RouterNotBlueChip
        IN  /\ RouterTokenType =
                  (IF bc THEN "BLUE_CHIP"
                   ELSE IF sy \in {"PEPE", "BabyDoge", "SHIBUNI"} THEN "MEMECOIN"
                   ELSE IF sy \in {"AAVE", "uniBOT"} THEN "DEFI"
                   ELSE "MEMECOIN")
            /\ RouterBlueChip => bc
            /\ RouterTokenType # "UNKNOWN" /\ c.token_type # "UNKNOWN"
            /\ c.token_type = (IF bc THEN "BLUE_CHIP" ELSE "MEMECOIN")
            /\ bc <=> c.strategy = "GMX_SHORT"
            /\ c.strategy = "SKIP" =>
                  \/ ~router.price_data.present
                  \/ c.market_phase = <<"UNCLEAR">>
            /\ (~bc) => router.price_reads = 1

\* a symbol holding a memecoin and a defi keyword was typed MEMECOIN and
\* routed by its price data
C24_Witness ==
    /\ router.phase = "done"
    /\ router.trade_plan.token_symbol = "SHIBUNI"
    /\ router.trade_plan.token_address = ""
    /\ RouterTokenType = "MEMECOIN"
    /\ router.price_data = PriceData(500, -59, FALSE)
    /\ router.classification.strategy = "CORRELATED_SHORT"

\* the weights of the red flags the signal of the analyzed token shows
TriggeredWeights ==
    LET g == flagged_in[1].signal
    IN    (IF g.insider_sells_24h > 5 /\ g.insider_sell_volume_usd > 500000 THEN 25 ELSE 0)
        + (IF g.liquidity_change_24h < -40 THEN 20 ELSE 0)
        + (IF g.tvl_change_24h < -40 THEN 20 ELSE 0)
        + (IF g.twitter_engagement_change_48h < -60 THEN 15 ELSE 0)
        + (IF g.dev_departures_30d > 2 THEN 10 ELSE 0)
        + (IF g.influencer_silence_hours > 72 THEN 10 ELSE 0)
        + (IF g.vote_passed /\ g.recent_vote_type = "treasury_raid" THEN 15
           ELSE IF g.vote_passed /\ g.recent_vote_type = "inflation" THEN 10 ELSE 0)

\* C25 (local-fallback decision policy): with sum the total weight of the
\* triggered red flags, the plan's confidence is min(sum, 100), in 0..100;
\* the decision is SHORT iff sum >= 70, MONITOR iff 50 <= sum < 70, PASS
\* otherwise; the position size is 20 iff sum >= 90, 15 iff 80 <= sum < 90,
\* 10 iff 70 <= sum < 80, else 0; it is positive exactly for SHORT.
C25_DecisionPolicy ==
    (Returned /\ env = "rules") =>
        LET sum == TriggeredWeights
            p   == result[1]
        IN  /\ Len(result) = 1
            /\ p.confidence = Min(sum, 100) /\ p.confidence \in 0..100
            /\ p.decision = "SHORT" <=> sum >= 70
            /\ p.decision = "MONITOR" <=> (50 <= sum /\ sum < 70)
            /\ p.decision = "PASS" <=> sum < 50
            /\ p.position_size_percent = 20 <=> sum >= 90
            /\ p.position_size_percent = 15 <=> (80 <= sum /\ sum < 90)
            /\ p.position_size_percent = 10 <=> (70 <= sum /\ sum < 80)
            /\ p.position_size_percent = 0 <=> sum < 70
            /\ p.position_size_percent > 0 <=> p.decision = "SHORT"

\* every red flag is up, with a treasury raid: the weights add up to 115
\* and the confidence is 100
C25_Witness ==
    /\ Returned /\ env = "rules"
    /\ TriggeredWeights = 115
    /\ result[1].confidence = 100 /\ result[1].decision = "SHORT"
    /\ result[1].position_size_percent = 20

\* the counters of self.stats
Counters == DOMAIN InitStats

\* the step ends an analyze_batch call that analyzed something
CallReturns == status' = "returned" /\ (status = "busy" \/ used' # used)

\* the step is the start of _analyze_with_splitting: a split is performed
SplitPerformed ==
    /\ status = "busy" /\ Top.fn = "split" /\ Top.pc = "start"
    /\ stack' # stack

\* the number of plans in trade_plans with the decision d
Decided(trade_plans, d) ==
    Cardinality({k \in 1..Len(trade_plans) : trade_plans[k].decision = d})

\* C26 (counters never decrease): no step lowers a counter of the
\* statistics; rate_limit_hits grows by one with each RATE_LIMITED
\* response and with nothing else, batches_split by one with each split
\* performed, total_analyzed (and the counter of each decision) by the
\* number of plans a call returns.
C26_CountersMonotonic ==
    [][/\ \A c \in Counters : stats'[c] >= stats[c]
       /\ stats'.rate_limit_hits =
             stats.rate_limit_hits
             + (IF RemoteStep /\ trace'.ev = "RATE_LIMITED" THEN 1 ELSE 0)
       /\ stats'.batches_split = stats.batches_split + (IF SplitPerformed THEN 1 ELSE 0)
       /\ stats'.total_analyzed =
             stats.total_analyzed + (IF CallReturns THEN Len(result') ELSE 0)
       /\ CallReturns =>
             /\ stats'.total_shorts = stats.total_shorts + Decided(result', "SHORT")
             /\ stats'.total_monitors = stats.total_monitors + Decided(result', "MONITOR")
             /\ stats'.total_passes = stats.total_passes
                   + Len(result') - Decided(result', "SHORT") - Decided(result', "MONITOR")]_vars

\* a call that met a rate limit, split its batch and was answered by the
\* last, paid model has returned and every counter it touches has grown
C26_Witness ==
    /\ Returned /\ Production
    /\ stats.rate_limit_hits >= 1 /\ stats.batches_split >= 1
    /\ stats.model_fallbacks = 3 /\ stats.batch_requests >= 1
    /\ stats.total_api_cost_usd > 0
    /\ stats.total_analyzed >= 2

\* C27 (first-split fan-out), as stated: one invocation of the split path
\* on a batch of n >= 2 items produces at most 3 chunks.
C27_AtMostThreeChunks ==
    (sizer.phase = "planned" /\ Len(sizer.items) >= 2) => Len(sizer.chunks) <= 3

\* C27 (first-split fan-out), amended: one invocation of the split path on a
\* batch of 2 <= n <= 3 * MAX_BATCH_SIZE items produces at most 3 chunks;
\* on a longer batch it produces ceil(n / MAX_BATCH_SIZE) chunks, which is
\* more than 3.
C27_FanOut ==
    (sizer.phase = "planned" /\ Len(sizer.items) >= 2) =>
        LET n == Len(sizer.items)
        IN  /\ n <= 3 * MAX_BATCH_SIZE => Len(sizer.chunks) \in 2..3
            /\ (3 <= n /\ n <= 3 * MAX_BATCH_SIZE /\ n # 4) => Len(sizer.chunks) = 3
            /\ n > 3 * MAX_BATCH_SIZE =>
                  /\ Len(sizer.chunks) = CeilDiv(n, MAX_BATCH_SIZE)
                  /\ Len(sizer.chunks) > 3

\* the longest list that still gets three chunks
C27_Witness ==
    /\ sizer.phase = "planned"
    /\ Len(sizer.items) = 3 * MAX_BATCH_SIZE
    /\ Len(sizer.chunks) = 3
    /\ \A k \in 1..3 : Len(sizer.chunks[k]) = MAX_BATCH_SIZE

\* C28 (sequential chunk processing): a remote call is always made by the
\* innermost activation, for the chunk its _analyze_with_splitting caller
\* currently stands at, on the model current at that moment; a split loop
\* moves to its next chunk only when the activation of the chunk has
\* returned, one chunk at a time; the inter-chunk delay is slept exactly
\* when a chunk has returned and a next chunk exists; and only a remote
\* call's failure handling changes current_model_index, so an advance made
\* in chunk k is in force for chunk k+1.
C28_SequentialChunks ==
    [][status = "busy" =>
         /\ RemoteStep =>
               /\ Top.fn = "gab" /\ Top.pc = "loop"
               /\ trace'.last_model = current_model_index
               /\ Len(stack) >= 2 =>
                     LET c == stack[Len(stack) - 1]
                     IN  /\ c.fn = "split" /\ c.pc = "chunk"
                         /\ c.idx \in 1..Len(c.chunks)
                         /\ Top.items = c.chunks[c.idx]
         /\ \A d \in 1..Len(stack) :
               (/\ d <= Len(stack')
                /\ stack[d].fn = "split" /\ stack[d].pc = "chunk"
                /\ stack'[d].fn = "split" /\ stack'[d].pc = "chunk") =>
                  /\ stack'[d].chunks = stack[d].chunks
                  /\ IF GabReturns /\ d = Len(stack')
                     THEN stack'[d].idx = stack[d].idx + 1 /\ stack'[d].idx <= Len(stack[d].chunks)
                     ELSE stack'[d].idx = stack[d].idx
         /\ trace'.n_chunk_sleeps =
               trace.n_chunk_sleeps + (IF GabReturns /\ stack' # <<>> THEN 1 ELSE 0)
         /\ ~RemoteStep => current_model_index' = current_model_index]_vars

\* the second of three chunks was answered on the model the first chunk
\* advanced to, after one inter-chunk delay; the loop slept again and stands
\* at the third chunk
C28_Witness ==
    /\ Production /\ status = "busy"
    /\ Len(stack) = 1 /\ stack[1].fn = "split" /\ stack[1].pc = "chunk"
    /\ Len(stack[1].chunks) = 3 /\ stack[1].idx = 3
    /\ Len(stack[1].all_trade_plans) = 2
    /\ trace.n_chunk_sleeps = 2
    /\ trace.ev = "SUCCESS" /\ trace.last_model = 1 /\ current_model_index = 1
    /\ stats.model_fallbacks = 1

\* run_cycle has returned its summary
CycleDone == engine.phase = "idle" /\ engine.summary # <<>>

\* the calls of process_tier1_batch and of process_tier2_batch of the cycle
Tier1Calls ==
    LET IsTier1(c) == c.op = "tier1"
    IN  SelectSeq(engine.ev, IsTier1)

Tier2Calls ==
    LET IsTier2(c) == c.op = "tier2"
    IN  SelectSeq(engine.ev, IsTier2)

\* C29 (cycle drain): with batch_size >= 1 a started run_cycle ends, and at
\* its end the signal queue is empty, the Tier-1 batches are the queue in
\* FIFO order cut into pieces of at most batch_size, process_tier2_batch was
\* called at most once and after every Tier-1 batch, with exactly the tokens
\* the Tier-1 batches of this cycle returned, in their order, and
\* cycles_completed is one more than at the start.
C29_CycleDrain ==
    /\ [](CycleDone =>
            /\ engine.batch_size >= 1
            /\ engine.signal_queue = <<>>
            /\ Concat([i \in 1..Len(Tier1Calls) |-> Tier1Calls[i].batch]) = engine.queue0
            /\ \A i \in 1..Len(Tier1Calls) :
                  Len(Tier1Calls[i].batch) \in 1..engine.batch_size
            /\ Len(Tier2Calls) <= 1
            /\ \A i \in 1..Len(engine.ev) :
                  engine.ev[i].op = "tier2" => i = Len(engine.ev)
            /\ \A i \in 1..Len(Tier2Calls) :
                  Tier2Calls[i].batch =
                      Concat([j \in 1..Len(Tier1Calls) |-> Tier1Calls[j].out])
            /\ engine.cycles_completed = engine.cycles0 + 1)
    /\ (engine.phase = "tier1" ~> CycleDone)

\* a later cycle of an engine took its signals in two batches or more and
\* handed flagged tokens of two batches to Tier 2, fewer than the engine has
\* flagged in its life
C29_Witness ==
    /\ CycleDone
    /\ engine.cycles_completed > 1
    /\ Len(engine.queue0) > engine.batch_size
    /\ Len(Tier1Calls) >= 2
    /\ Len(Tier2Calls) = 1
    /\ Tier1Calls[1].out # <<>> /\ Tier1Calls[2].out # <<>>
    /\ engine.flagged_queue # Tier2Calls[1].batch

\* C30 (routing dispatch): the loop of _execute_trade_plans classifies and
\* executes nothing when blockchain integration is disabled; every plan it
\* classifies is a SHORT plan, so no MONITOR or PASS plan reaches the
\* classifier or an executor; a plan leads to at most one executor call, the
\* one of its classification: execute_short on the plan's own symbol for
\* GMX_SHORT, execute_short on the asset correlated with the plan's chain for
\* CORRELATED_SHORT, execute_dip_buy for DIP_BUY, none for SKIP and none when
\* classify failed.
C30_RoutingDispatch ==
    /\ ~engine.enabled => engine.log = <<>>
    /\ \A k \in 1..Len(engine.log) :
          LET l    == engine.log[k]
              plan == engine.trade_plans[l.i]
          IN  /\ plan.decision = "SHORT"
              /\ Len(l.call) <= 1
              /\ ~l.classified => l.call = <<>>
              /\ l.classified =>
                    /\ l.strategy \in {"GMX_SHORT", "CORRELATED_SHORT", "DIP_BUY", "SKIP"}
                    /\ l.strategy = "GMX_SHORT" =>
                          l.call = <<[fn |-> "execute_short", target |-> plan.token_symbol]>>
                    /\ l.strategy = "CORRELATED_SHORT" =>
                          l.call = <<[fn |-> "execute_short",
                                      target |-> GetCorrelatedAsset(
                                                     ClassifierPlan(plan).chain)]>>
                    /\ l.strategy = "DIP_BUY" =>
                          /\ Len(l.call) = 1
                          /\ l.call[1].fn = "execute_dip_buy"
                    /\ l.strategy = "SKIP" => l.call = <<>>

\* an enabled engine has gone through a batch that began with a plan that
\* is no SHORT: it classified the two SHORT plans after it only, shorted the
\* correlated asset (not the plan's token) for one and bought the dip of the
\* other
C30_Witness ==
    /\ engine.phase = "returned" /\ engine.enabled
    /\ Len(engine.trade_plans) = 3 /\ Len(engine.log) = 2
    /\ engine.trade_plans[1].decision \in {"MONITOR", "PASS"}
    /\ engine.log[1].strategy = "CORRELATED_SHORT"
    /\ engine.log[1].call[1].target # engine.trade_plans[2].token_symbol
    /\ engine.log[2].strategy = "DIP_BUY"
    /\ engine.log[2].call # <<>>

\* the positions of a request of n tokens whose decision object could be
\* read, in order
KeptPositions(n, bad) ==
    LET Kept(k) == k \notin bad
    IN  SelectSeq([k \in 1..n |-> k], Kept)

\* C31 (malformed decision object): when the response to a request has as
\* many decision objects as the request has tokens, the objects that cannot
\* be read are skipped and every other object becomes a remote plan for the
\* token at its position: the call returns one plan less for every skipped
\* object, the plans after a skipped position stand one place before their
\* tokens, no exception leaves the call and no token is handed to the local
\* fallback; an unsplit analyze_batch returns that shorter list.
C31_MalformedSkipped ==
    [][(RemoteStep /\ trace'.ev = "SUCCESS") =>
          LET items == Top.items
              kept  == KeptPositions(Len(items), trace'.bad)
              ret   == trace'.ret
          IN  /\ status' # "raised"
              /\ Len(ret) = Len(items) - Cardinality(trace'.bad)
              /\ \A i \in 1..Len(ret) :
                    /\ ret[i].src = "remote"
                    /\ ret[i].pos = kept[i]
                    /\ ret[i].tag = kept[i]
                    /\ ret[i].item = items[kept[i]].id
                    /\ ret[i].urgency_score = items[kept[i]].urgency_score
              /\ (status' = "returned" /\ trace'.n_splits = 0) =>
                    /\ result' = ret
                    /\ Len(result') = Len(flagged_in) - Cardinality(trace'.bad)
    ]_vars

\* analyze_batch returned two plans for three tokens: the second decision
\* object of the only response could not be read and the plan at position 2
\* is the one of the third token
C31_Witness ==
    /\ Returned /\ trace.ev = "SUCCESS" /\ trace.n_remote = 1 /\ trace.n_splits = 0
    /\ Len(flagged_in) = 3 /\ trace.bad = {2}
    /\ Len(result) = 2
    /\ result[2].item = flagged_in[3].id /\ result[2].src = "remote"

\* a remote call failed
FailedStep == RemoteStep /\ trace'.ev \notin {"SUCCESS", "MISMATCH"}

\* the activation that made the call goes on to its next try
LoopGoesOn ==
    /\ status' = "busy"
    /\ Len(stack') = Len(stack)
    /\ stack'[Len(stack')].fn = "gab"

C33_ModelIndexInvariant ==
    /\ [](/\ current_model_index \in 0..(Len(MODELS) - 1)
          /\ stats.model_fallbacks = current_model_index)
    /\ [][RemoteStep =>
             /\ trace'.last_model = current_model_index
             /\ GetCurrentModel(current_model_index) = MODELS[current_model_index + 1]
       ]_vars

\* an analyzer at its last model was asked to fall back after a rate limit
\* and stayed where it was
C33_Witness ==
    /\ current_model_index = Len(MODELS) - 1
    /\ stats.model_fallbacks = Len(MODELS) - 1
    /\ trace.ev = "RATE_LIMITED"
    /\ trace.fb.called /\ ~trace.fb.advanced
    /\ trace.last_model = Len(MODELS) - 1

\* C34 (confidence gate): with the default threshold of 75 for shorts and a
\* plan confidence c in 0..100, a CORRELATED_SHORT plan reaches execute_short
\* with int(0.7 * c), at most 70, and no request is posted for it; a
\* GMX_SHORT plan with c in 70..74, a confidence the rule-based analyzer
\* decides SHORT, reaches execute_short with c and no request is posted
\* either.
C34_ConfidenceGate ==
    (/\ engine.phase = "done"
     /\ engine.min_confidence_short = MIN_CONFIDENCE_FOR_SHORT
     /\ engine.plan.confidence \in 0..100) =>
        /\ engine.strategy = "CORRELATED_SHORT" =>
              /\ engine.call # <<>> /\ engine.call[1].fn = "execute_short"
              /\ engine.confidence <= 70
              /\ 10 * engine.confidence <= 7 * engine.plan.confidence
              /\ engine.requests = <<>>
        /\ (engine.strategy = "GMX_SHORT" /\ engine.plan.confidence \in 70..74) =>
              /\ RuleDecision(engine.plan.confidence) = "SHORT"
              /\ engine.call # <<>> /\ engine.call[1].fn = "execute_short"
              /\ engine.confidence = engine.plan.confidence
              /\ engine.requests = <<>>

\* a memecoin plan of confidence 100 was classified CORRELATED_SHORT and
\* handed to execute_short with confidence 70: nothing was posted
C34_Witness ==
    /\ engine.phase = "done"
    /\ engine.min_confidence_short = MIN_CONFIDENCE_FOR_SHORT
    /\ engine.plan.confidence = 100
    /\ engine.strategy = "CORRELATED_SHORT"
    /\ engine.call # <<>>
    /\ engine.confidence = 70
    /\ engine.requests = <<>>

\* the loops of run_screening_cycle that have begun and not ended
ActiveLoops == {t \in 1..Len(engine.loops) : engine.loops[t] = "sleeping"}

\* C35 (single screening loop): in every interleaving of /agent/start and
\* /agent/stop with the background task at most one run_screening_cycle
\* loop is active.
C35_SingleScreeningLoop == Cardinality(ActiveLoops) <= 1

\* a call of process_tier1_batch whose screening raised
FailedTier1(c) == c.op = "tier1" /\ c.raised

SeqElems(q) == {q[i] : i \in 1..Len(q)}

\* C36 (Tier-1 failure handling): when the screening of a dequeued batch
\* raises, process_tier1_batch returns the empty list and records exactly one
\* error; the batch has left the queue and stays off it, is not counted in
\* tier1_processed and none of its signals reaches Tier 2; flagged_queue and
\* every other counter are unchanged, and the batches behind it are still
\* processed.
C36_Tier1Failure ==
    /\ [][(/\ engine.phase = "tier1"
           /\ Len(engine'.ev) = Len(engine.ev) + 1
           /\ FailedTier1(engine'.ev[Len(engine'.ev)])) =>
          LET c == engine'.ev[Len(engine'.ev)]
          IN  /\ c.out = <<>>
              /\ c.batch # <<>>
              /\ c.batch = SubSeq(engine.signal_queue, 1, Len(c.batch))
              /\ engine'.stats = [engine.stats EXCEPT !.errors = @ + 1]
              /\ engine'.signal_queue =
                     SubSeq(engine.signal_queue, Len(c.batch) + 1,
                            Len(engine.signal_queue))
              /\ SeqElems(c.batch) \cap SeqElems(engine'.signal_queue) = {}
              /\ engine'.tier1_processed = engine.tier1_processed
              /\ engine'.tier1_flagged = engine.tier1_flagged
              /\ engine'.flagged_queue = engine.flagged_queue
              /\ engine'.total_flagged = engine.total_flagged
              /\ engine'.total_signals_ingested = engine.total_signals_ingested
              /\ engine'.cycles_completed = engine.cycles_completed
              /\ engine'.trade_plans = engine.trade_plans
              /\ engine'.phase = "tier1"]_vars
    /\ [](\A i, j \in 1..Len(engine.ev) :
            FailedTier1(engine.ev[i]) =>
               /\ SeqElems(engine.ev[i].batch) \cap SeqElems(engine.signal_queue) = {}
               /\ SeqElems(engine.ev[i].batch) \cap SeqElems(engine.total_flagged) = {}
               /\ engine.ev[j].op = "tier2" =>
                     SeqElems(engine.ev[i].batch) \cap SeqElems(engine.ev[j].batch) = {})
    /\ ((/\ engine.phase = "tier1" /\ engine.signal_queue # <<>>
         /\ \E i \in 1..Len(engine.ev) : FailedTier1(engine.ev[i]))
        ~> (engine.phase # "tier1" /\ engine.signal_queue = <<>>))

\* a cycle ended in which the screening of the first batch raised, the batch
\* behind it was screened and flagged, and only the flagged tokens of the
\* later batch went to Tier 2
C36_Witness ==
    /\ CycleDone
    /\ Len(Tier1Calls) >= 2
    /\ FailedTier1(Tier1Calls[1])
    /\ ~Tier1Calls[2].raised /\ Tier1Calls[2].out # <<>>
    /\ Len(Tier2Calls) = 1
    /\ Tier2Calls[1].batch = Tier1Calls[2].out
    /\ engine.stats.errors = 1
    /\ engine.tier1_processed = Len(Tier1Calls[2].batch)

\* C37 (classification consistency): every Classification classify returns
\* has strategy GMX_SHORT iff its token_type is BLUE_CHIP, and then no
\* market_phase; strategy CORRELATED_SHORT iff its market_phase is PRE_RUG,
\* and then a correlated_asset; strategy DIP_BUY iff its market_phase is
\* POST_RUG, and then current_price, price_drop_24h and bounce_target; a
\* token typed by a DeFi keyword alone gets what a memecoin gets for the same
\* price data, typed MEMECOIN; token_type is never DEFI or UNKNOWN.
C37_ClassificationConsistent ==
    router.phase = "done" =>
        LET c    == router.classification
            plan == router.trade_plan
            meme == Classify([plan EXCEPT !.token_symbol = "PEPE"], router.price_data)
        IN  /\ c.strategy = "GMX_SHORT" <=> c.token_type = "BLUE_CHIP"
            /\ c.strategy = "GMX_SHORT" => c.market_phase = <<>>
            /\ c.strategy = "CORRELATED_SHORT" <=> c.market_phase = <<"PRE_RUG">>
            /\ c.strategy = "CORRELATED_SHORT" =>
                  /\ c.correlated_asset # <<>>
                  /\ c.correlated_asset[1] \in DOMAIN BLUE_CHIP_TOKENS
            /\ c.strategy = "DIP_BUY" <=> c.market_phase = <<"POST_RUG">>
            /\ c.strategy = "DIP_BUY" =>
                  /\ c.current_price # <<>>
                  /\ c.price_drop_24h # <<>>
                  /\ c.bounce_target # <<>>
            /\ ClassifyToken(plan.token_symbol, plan.token_address) = "DEFI" =>
                  /\ c = meme.classification
                  /\ c.token_type = "MEMECOIN"
            /\ c.token_type \in {"BLUE_CHIP", "MEMECOIN"}

\* a token typed by a DeFi keyword alone that fell by 85%: the dip buy of a
\* memecoin, typed MEMECOIN
C37_Witness ==
    /\ router.phase = "done"
    /\ router.trade_plan.token_symbol = "uniBOT"
    /\ router.trade_plan.token_address = ""
    /\ ClassifyToken("uniBOT", "") = "DEFI"
    /\ router.price_data = PriceData(500, -85, TRUE)
    /\ router.classification.strategy = "DIP_BUY"
    /\ router.classification.token_type = "MEMECOIN"
    /\ router.classification.current_price = <<500>>

\* the plans of trade_plans that count as a pass: neither SHORT nor MONITOR
Passes(trade_plans) ==
    Len(trade_plans) - Decided(trade_plans, "SHORT") - Decided(trade_plans, "MONITOR")

AnalyzerBalanced ==
    stats.total_analyzed = stats.total_shorts + stats.total_monitors + stats.total_passes

\* C38 (counter balance): after every call of analyze_batch the analyzer's
\* total_analyzed is the sum of total_shorts, total_monitors and
\* total_passes, a plan that is neither SHORT nor MONITOR counting as a
\* pass; after every call of process_tier2_batch the engine's tier2_analyzed
\* is the sum of tier2_shorts, tier2_monitors and tier2_passes and is the
\* length of trade_plans.
C38_CounterBalance ==
    /\ AnalyzerBalanced
    /\ stats.total_passes = Passes(engine.stored)
    /\ engine.stats.tier2_analyzed =
          engine.stats.tier2_shorts + engine.stats.tier2_monitors
          + engine.stats.tier2_passes
    /\ engine.stats.tier2_shorts = Decided(engine.stored, "SHORT")
    /\ engine.stats.tier2_monitors = Decided(engine.stored, "MONITOR")
    /\ engine.stats.tier2_passes = Passes(engine.stored)
    /\ Len(engine.stored) = engine.stats.tier2_analyzed

\* two cycles have ended whose Tier-2 calls returned a short and a monitor,
\* then a plan with a decision of its own and a pass
C38_Witness ==
    /\ CycleDone
    /\ engine.cycles_completed = 2
    /\ Len(engine.stored) = 4
    /\ engine.stored[3].decision = "HOLD"
    /\ engine.stats.tier2_analyzed = 4
    /\ engine.stats.tier2_passes = 2
    /\ stats.total_analyzed = 4 /\ stats.total_passes = 2
    /\ stats.total_shorts = 1 /\ stats.total_monitors = 1

====
